---- MODULE Spec2Model ----
(***************************************************************************)
(* A model of the MathUtils headers: Vector.h (fixed-size vectors with     *)
(* cross-size arithmetic and comparisons) and Time.h (Interval / Time      *)
(* values with compile-time unit conversion).                              *)
(*                                                                         *)
(* A Vector<T, N> is a sequence of N elements; the template parameter N is *)
(* Len of the sequence.  The element type is a signed integer type (the    *)
(* tests use int64_t); the element values of the model are so small that   *)
(* no operation leaves the range of the type.                              *)
(***************************************************************************)
EXTENDS Integers, Sequences, FiniteSets, TLC

VARIABLES lhs, rhs, op, result, status, obj, other, orig

vecVars == <<lhs, rhs>>

timeVars == <<obj, other, orig>>

vars == <<lhs, rhs, op, result, status, obj, other, orig>>

(***************************************************************************)
(* Bounds of the model.                                                    *)
(***************************************************************************)
\* the largest vector size N
MaxN == 2
\* vector elements are drawn from -MaxElem..MaxElem
MaxElem == 2

Elems == (0 - MaxElem)..MaxElem

Sizes == 1..MaxN

\* every Vector<T, N> with 1 <= N <= MaxN over Elems
Vectors == UNION {[1..n -> Elems] : n \in Sizes}

Max(x, y) == IF x >= y THEN x ELSE y

Min(x, y) == IF x <= y THEN x ELSE y

Abs(x) == IF x >= 0 THEN x ELSE 0 - x

(***************************************************************************)
(* T's own division: C++ integer division truncates toward zero.           *)
(***************************************************************************)
TruncDivFloor(x, y) == x \div y

TruncDiv(x, y) ==
    IF (x >= 0) = (y > 0) THEN Abs(x) \div Abs(y) ELSE 0 - (Abs(x) \div Abs(y))

(***************************************************************************)
(* Vector(const Vector<T, M>& other), N >= M: the base is value-           *)
(* initialised (all zero) and the first M slots are copied.                *)
(***************************************************************************)
Vector_widen(v, n) == [i \in 1..n |-> IF i <= Len(v) THEN v[i] ELSE 0]

\* Vector(): all components zero
Vector_default(n) == [i \in 1..n |-> 0]

Vector_negate_copy(a) == [i \in 1..Len(a) |-> a[i]]

\* Vector operator-() const
Vector_negate(a) == [i \in 1..Len(a) |-> 0 - a[i]]

(***************************************************************************)
(* operator+ : the longer operand is copied and the shorter one is added   *)
(* to its leading slots.                                                   *)
(***************************************************************************)
Vector_plus_truncating(a, b) ==
    IF Len(a) >= Len(b)
    THEN [i \in 1..Len(b) |-> a[i] + b[i]]
    ELSE [i \in 1..Len(a) |-> b[i] + a[i]]

Vector_plus(a, b) ==
    IF Len(a) >= Len(b)
    THEN [i \in 1..Len(a) |-> IF i <= Len(b) THEN a[i] + b[i] ELSE a[i]]
    ELSE [i \in 1..Len(b) |-> IF i <= Len(a) THEN b[i] + a[i] ELSE b[i]]

(***************************************************************************)
(* operator- : for N >= M the other operand is subtracted from a copy of   *)
(* this; for N < M this is added to the negated other operand.             *)
(***************************************************************************)
Vector_minus_unnegated(a, b) ==
    IF Len(a) >= Len(b)
    THEN [i \in 1..Len(a) |-> IF i <= Len(b) THEN a[i] - b[i] ELSE a[i]]
    ELSE [i \in 1..Len(b) |-> IF i <= Len(a) THEN b[i] + a[i] ELSE b[i]]

Vector_minus(a, b) ==
    IF Len(a) >= Len(b)
    THEN [i \in 1..Len(a) |-> IF i <= Len(b) THEN a[i] - b[i] ELSE a[i]]
    ELSE LET neg == Vector_negate(b)
         IN  [i \in 1..Len(b) |-> IF i <= Len(a) THEN neg[i] + a[i] ELSE neg[i]]

(***************************************************************************)
(* operator* : the result starts all zero; the products of the shared      *)
(* prefix are stored into it.                                              *)
(***************************************************************************)
Vector_times_copying(a, b) ==
    IF Len(a) >= Len(b)
    THEN [i \in 1..Len(a) |-> IF i <= Len(b) THEN a[i] * b[i] ELSE a[i]]
    ELSE [i \in 1..Len(b) |-> IF i <= Len(a) THEN a[i] * b[i] ELSE b[i]]

Vector_times(a, b) ==
    IF Len(a) >= Len(b)
    THEN [i \in 1..Len(a) |-> IF i <= Len(b) THEN a[i] * b[i] ELSE Vector_default(Len(a))[i]]
    ELSE [i \in 1..Len(b) |-> IF i <= Len(a) THEN a[i] * b[i] ELSE Vector_default(Len(b))[i]]

(***************************************************************************)
(* operator/ (N <= M): the result starts all zero; the quotients of the    *)
(* first N slots are stored into it.  The operator has no assertion: a     *)
(* zero divisor is undefined behaviour of the integer division, and ub is  *)
(* the value such a division leaves in its slot.                           *)
(***************************************************************************)
Vector_divide_floor(a, b, ub) ==
    [i \in 1..Len(b) |->
        IF i <= Len(a)
        THEN IF b[i] # 0 THEN TruncDivFloor(a[i], b[i]) ELSE ub
        ELSE Vector_default(Len(b))[i]]

Vector_divide(a, b, ub) ==
    [i \in 1..Len(b) |->
        IF i <= Len(a)
        THEN IF b[i] # 0 THEN TruncDiv(a[i], b[i]) ELSE ub
        ELSE Vector_default(Len(b))[i]]

\* whether operator/ divides by a zero component
DividesByZero(a, b) == \E i \in 1..Len(a) : b[i] = 0

(***************************************************************************)
(* The loops of the comparison operators.  A loop either returns from the  *)
(* operator ("true", "false") or runs to its end ("fall").                 *)
(***************************************************************************)
\* for (i = from..to) if (v[i] != w[i]) return found;
RECURSIVE DifferLoop(_, _, _, _, _)
DifferLoop(v, w, i, to, found) ==
    IF i > to THEN "fall"
    ELSE IF v[i] # w[i] THEN found
    ELSE DifferLoop(v, w, i + 1, to, found)

\* for (i = from..to) if (v[i] != T()) return found;
RECURSIVE NonZeroLoop(_, _, _, _)
NonZeroLoop(v, i, to, found) ==
    IF i > to THEN "fall"
    ELSE IF v[i] # 0 THEN found
    ELSE NonZeroLoop(v, i + 1, to, found)

\* for (i = from..to) if (v[i] < w[i]) return less; else if (v[i] > w[i]) return greater;
RECURSIVE OrderLoop(_, _, _, _, _, _)
OrderLoop(v, w, i, to, less, greater) ==
    IF i > to THEN "fall"
    ELSE IF v[i] < w[i] THEN less
    ELSE IF v[i] > w[i] THEN greater
    ELSE OrderLoop(v, w, i + 1, to, less, greater)

\* for (i = from..to) if (v[i] > T()) return pos; else if (v[i] < T()) return neg;
RECURSIVE SignLoop(_, _, _, _, _)
SignLoop(v, i, to, pos, neg) ==
    IF i > to THEN "fall"
    ELSE IF v[i] > 0 THEN pos
    ELSE IF v[i] < 0 THEN neg
    ELSE SignLoop(v, i + 1, to, pos, neg)

\* the value an operator returns: the first loop that returns decides,
\* and atEnd is the final return statement
Returned(first, second, atEnd) ==
    IF first # "fall" THEN first = "true"
    ELSE IF second # "fall" THEN second = "true"
    ELSE atEnd

(***************************************************************************)
(* operator== and operator!= : the shared prefix, then the trailing        *)
(* components of the longer operand against T().                           *)
(***************************************************************************)
Vector_eq_prefix_only(a, b) ==
    Returned(DifferLoop(a, b, 1, Min(Len(a), Len(b)), "false"), "fall", TRUE)

Vector_eq(a, b) ==
    Returned(DifferLoop(a, b, 1, Min(Len(a), Len(b)), "false"),
             IF Len(a) > Len(b) THEN NonZeroLoop(a, Len(b) + 1, Len(a), "false")
             ELSE IF Len(b) > Len(a) THEN NonZeroLoop(b, Len(a) + 1, Len(b), "false")
             ELSE "fall",
             TRUE)

Vector_ne(a, b) ==
    Returned(DifferLoop(a, b, 1, Min(Len(a), Len(b)), "true"),
             IF Len(a) > Len(b) THEN NonZeroLoop(a, Len(b) + 1, Len(a), "true")
             ELSE IF Len(b) > Len(a) THEN NonZeroLoop(b, Len(a) + 1, Len(b), "true")
             ELSE "fall",
             FALSE)

(***************************************************************************)
(* operator< and operator<= differ in the final return only; so do         *)
(* operator> and operator>=.                                               *)
(***************************************************************************)
Vector_lt_shorter_first(a, b) ==
    Returned(OrderLoop(a, b, 1, Min(Len(a), Len(b)), "true", "false"),
             "fall",
             Len(a) < Len(b))

Vector_lt_unsigned_tail(a, b) ==
    Returned(OrderLoop(a, b, 1, Min(Len(a), Len(b)), "true", "false"),
             IF Len(a) < Len(b) THEN SignLoop(b, Len(a) + 1, Len(b), "true", "true")
             ELSE IF Len(a) > Len(b) THEN SignLoop(a, Len(b) + 1, Len(a), "false", "false")
             ELSE "fall",
             FALSE)

Vector_lt(a, b) ==
    Returned(OrderLoop(a, b, 1, Min(Len(a), Len(b)), "true", "false"),
             IF Len(a) < Len(b) THEN SignLoop(b, Len(a) + 1, Len(b), "true", "false")
             ELSE IF Len(a) > Len(b) THEN SignLoop(a, Len(b) + 1, Len(a), "false", "true")
             ELSE "fall",
             FALSE)

Vector_le(a, b) ==
    Returned(OrderLoop(a, b, 1, Min(Len(a), Len(b)), "true", "false"),
             IF Len(a) < Len(b) THEN SignLoop(b, Len(a) + 1, Len(b), "true", "false")
             ELSE IF Len(a) > Len(b) THEN SignLoop(a, Len(b) + 1, Len(a), "false", "true")
             ELSE "fall",
             TRUE)

Vector_gt(a, b) ==
    Returned(OrderLoop(a, b, 1, Min(Len(a), Len(b)), "false", "true"),
             IF Len(a) < Len(b) THEN SignLoop(b, Len(a) + 1, Len(b), "false", "true")
             ELSE IF Len(b) < Len(a) THEN SignLoop(a, Len(b) + 1, Len(a), "true", "false")
             ELSE "fall",
             FALSE)

Vector_ge_strict(a, b) ==
    Returned(OrderLoop(a, b, 1, Min(Len(a), Len(b)), "false", "true"),
             IF Len(a) < Len(b) THEN SignLoop(b, Len(a) + 1, Len(b), "false", "true")
             ELSE IF Len(b) < Len(a) THEN SignLoop(a, Len(b) + 1, Len(a), "true", "false")
             ELSE "fall",
             FALSE)

Vector_ge(a, b) ==
    Returned(OrderLoop(a, b, 1, Min(Len(a), Len(b)), "false", "true"),
             IF Len(a) < Len(b) THEN SignLoop(b, Len(a) + 1, Len(b), "false", "true")
             ELSE IF Len(b) < Len(a) THEN SignLoop(a, Len(b) + 1, Len(a), "true", "false")
             ELSE "fall",
             TRUE)

(***************************************************************************)
(* The vector operations as steps: two vectors are constructed, and each   *)
(* binary operator is applied to them once.  The operators are const       *)
(* member functions: they leave both operands alone.                       *)
(***************************************************************************)
NoResult == <<>>

\* no Interval or Time object
NoObject == <<>>

VectorInit ==
    /\ lhs \in Vectors
    /\ rhs \in Vectors
    /\ op = "construct"
    /\ result = NoResult
    /\ status = "ok"
    /\ obj = NoObject
    /\ other = NoObject
    /\ orig = NoObject

Returns(name, value) ==
    /\ op = "construct"
    /\ op' = name
    /\ result' = value
    /\ UNCHANGED <<lhs, rhs, status, timeVars>>

Plus == Returns("plus", Vector_plus(lhs, rhs))

Minus == Returns("minus", Vector_minus(lhs, rhs))

Times == Returns("times", Vector_times(lhs, rhs))

\* enable_if_t<(N <= M)>: a longer dividend does not compile.  A zero
\* divisor component is undefined behaviour: the division traps, or it
\* leaves some value in the slot.
Divide ==
    /\ op = "construct"
    /\ Len(lhs) <= Len(rhs)
    /\ op' = "divide"
    /\ IF DividesByZero(lhs, rhs)
       THEN \/ /\ status' = "trap"
               /\ result' = NoResult
            \/ /\ status' = "ok"
               /\ \E ub \in Elems : result' = Vector_divide(lhs, rhs, ub)
       ELSE /\ status' = "ok"
            /\ result' = Vector_divide(lhs, rhs, 0)
    /\ UNCHANGED <<lhs, rhs, timeVars>>

Equal == Returns("eq", Vector_eq(lhs, rhs))

NotEqual == Returns("ne", Vector_ne(lhs, rhs))

Less == Returns("lt", Vector_lt(lhs, rhs))

LessEqual == Returns("le", Vector_le(lhs, rhs))

Greater == Returns("gt", Vector_gt(lhs, rhs))

GreaterEqual == Returns("ge", Vector_ge(lhs, rhs))

VectorNext ==
    \/ Plus
    \/ Minus
    \/ Times
    \/ Divide
    \/ Equal
    \/ NotEqual
    \/ Less
    \/ LessEqual
    \/ Greater
    \/ GreaterEqual

SpecVector == VectorInit /\ [][VectorNext]_vars

(***************************************************************************)
(* Properties of the vector operators.  a zero-extended to length n is     *)
(* Vector_widen(a, n).                                                     *)
(***************************************************************************)
MaxSize == Max(Len(lhs), Len(rhs))

MinSize == Min(Len(lhs), Len(rhs))

\* q is x / y truncated toward zero (y # 0)
IsTruncatedQuotient(q, x, y) ==
    /\ Abs(q) * Abs(y) <= Abs(x)
    /\ Abs(x) < (Abs(q) + 1) * Abs(y)
    /\ q > 0 => ((x > 0) = (y > 0))
    /\ q < 0 => ((x > 0) # (y > 0))

\* the zero-extended operands differ first at index k, and lhs is the smaller there
LessAt(k) ==
    /\ Vector_widen(lhs, MaxSize)[k] < Vector_widen(rhs, MaxSize)[k]
    /\ \A j \in 1..(k - 1) :
          Vector_widen(lhs, MaxSize)[j] = Vector_widen(rhs, MaxSize)[j]

(* C1: a + b has size max(N, M), its component i is the sum of the         *)
(* components i of the zero-extended operands, and b + a is the same       *)
(* vector.                                                                 *)
C1_PlusZeroExtends ==
    op = "plus" =>
        /\ Len(result) = MaxSize
        /\ \A i \in 1..MaxSize :
              result[i] = Vector_widen(lhs, MaxSize)[i] + Vector_widen(rhs, MaxSize)[i]
        /\ result = Vector_plus(rhs, lhs)

C1_Witness ==
    /\ op = "plus"
    /\ lhs = <<1>>
    /\ rhs = <<2, -1>>
    /\ result = <<3, -1>>

(* C2: a == b is true exactly when the shared prefix agrees and every      *)
(* trailing component of the longer operand is zero; b == a gives the same *)
(* answer.                                                                 *)
C2_EqualityPadsWithZero ==
    op = "eq" =>
        /\ result <=>
              /\ \A i \in 1..MinSize : lhs[i] = rhs[i]
              /\ \A i \in (MinSize + 1)..MaxSize :
                    (IF Len(lhs) > Len(rhs) THEN lhs ELSE rhs)[i] = 0
        /\ result = Vector_eq(rhs, lhs)

C2_Witness ==
    /\ op = "eq"
    /\ lhs = <<1>>
    /\ rhs = <<1, 0>>
    /\ result = TRUE

(* C3: a / b exists only for N <= M; where no divided-into component of b  *)
(* is zero the result has size M, its component i < N is a[i] / b[i]       *)
(* truncated toward zero, and its components from N on are 0.              *)
C3_DivideZeroExtendsDividend ==
    op = "divide" =>
        /\ Len(lhs) <= Len(rhs)
        /\ ~DividesByZero(lhs, rhs) =>
              /\ status = "ok"
              /\ Len(result) = Len(rhs)
              /\ \A i \in 1..Len(lhs) : IsTruncatedQuotient(result[i], lhs[i], rhs[i])
              /\ \A i \in (Len(lhs) + 1)..Len(rhs) : result[i] = 0

C3_Witness ==
    /\ op = "divide"
    /\ lhs = <<-1>>
    /\ rhs = <<2, 2>>
    /\ result = <<0, 0>>

(* C4: a - b has size max(N, M), its component i is the difference of the  *)
(* components i of the zero-extended operands, for N >= M and for N < M,   *)
(* and a - b == -(b - a).                                                  *)
C4_MinusZeroExtends ==
    op = "minus" =>
        /\ Len(result) = MaxSize
        /\ \A i \in 1..MaxSize :
              result[i] = Vector_widen(lhs, MaxSize)[i] - Vector_widen(rhs, MaxSize)[i]
        /\ Vector_eq(result, Vector_negate(Vector_minus(rhs, lhs)))

C4_Witness ==
    /\ op = "minus"
    /\ lhs = <<1>>
    /\ rhs = <<2, 1>>
    /\ result = <<-1, -1>>

(* C5: a * b has size max(N, M), its component i is a[i] * b[i] on the     *)
(* shared prefix and 0 from min(N, M) on, and b * a is the same vector.    *)
C5_TimesZeroExtends ==
    op = "times" =>
        /\ Len(result) = MaxSize
        /\ \A i \in 1..MinSize : result[i] = lhs[i] * rhs[i]
        /\ \A i \in (MinSize + 1)..MaxSize : result[i] = 0
        /\ result = Vector_times(rhs, lhs)

C5_Witness ==
    /\ op = "times"
    /\ lhs = <<2>>
    /\ rhs = <<2, 1>>
    /\ result = <<4, 0>>

(* C6: a < b is true exactly when the zero-extended operands differ and a  *)
(* holds the smaller component at the first index where they do.           *)
C6_LessIsLexicographic ==
    op = "lt" => (result <=> \E k \in 1..MaxSize : LessAt(k))

C6_Witness ==
    /\ op = "lt"
    /\ lhs = <<1, -1>>
    /\ rhs = <<1>>
    /\ result = TRUE

(* C7: the six comparison operators are one ordering: exactly one of       *)
(* a < b, a == b, a > b holds; != is the negation of ==; <= is < or ==;    *)
(* a > b is b < a; >= is the negation of <.                                *)
C7_ComparisonsConsistent ==
    /\ \/ Vector_lt(lhs, rhs) /\ ~Vector_eq(lhs, rhs) /\ ~Vector_gt(lhs, rhs)
       \/ ~Vector_lt(lhs, rhs) /\ Vector_eq(lhs, rhs) /\ ~Vector_gt(lhs, rhs)
       \/ ~Vector_lt(lhs, rhs) /\ ~Vector_eq(lhs, rhs) /\ Vector_gt(lhs, rhs)
    /\ op = "ne" => (result <=> ~Vector_eq(lhs, rhs))
    /\ op = "le" => (result <=> (Vector_lt(lhs, rhs) \/ Vector_eq(lhs, rhs)))
    /\ op = "gt" => (result <=> Vector_lt(rhs, lhs))
    /\ op = "ge" => (result <=> ~Vector_lt(lhs, rhs))

C7_Witness ==
    /\ op = "ge"
    /\ lhs = <<1, 0>>
    /\ rhs = <<1>>
    /\ result = TRUE

(***************************************************************************)
(* Time.h.  The representation type T of the model is int64_t, and the     *)
(* conversion factor is a uint64_t.  A 64-bit word is a sequence of        *)
(* NumBytes bytes, least significant first, so that unsigned arithmetic    *)
(* wraps modulo 2^64 as the machine's does.  An operation binds its        *)
(* operands with \in {..}, which has each of them evaluated once.          *)
(***************************************************************************)
NumBytes == 8

ByteBase == 256

Word == [1..NumBytes -> 0..(ByteBase - 1)]

\* the word, of n bytes, of a natural number x < 2^31
FromNat(x, n) ==
    [i \in 1..n |-> IF i <= 4 THEN (x \div (ByteBase ^ (i - 1))) % ByteBase ELSE 0]

\* a word cut or zero-extended to n bytes
Resize(w, n) == [i \in 1..n |-> IF i <= Len(w) THEN w[i] ELSE 0]

IsZero(w) == \A i \in 1..Len(w) : w[i] = 0

\* w + x modulo ByteBase^Len(w), from byte i on with carry c
RECURSIVE AddFrom(_, _, _, _)
AddFrom(w, x, i, c) ==
    IF i > Len(w) THEN <<>>
    ELSE LET s == w[i] + x[i] + c
         IN  <<s % ByteBase>> \o AddFrom(w, x, i + 1, s \div ByteBase)

WordAdd(w, x) == CHOOSE s \in {AddFrom(a, b, 1, 0) : a \in {w}, b \in {x}} : TRUE

\* w - x modulo ByteBase^Len(w), from byte i on with borrow c
RECURSIVE SubFrom(_, _, _, _)
SubFrom(w, x, i, c) ==
    IF i > Len(w) THEN <<>>
    ELSE LET d == w[i] - x[i] - c
         IN  <<d % ByteBase>> \o SubFrom(w, x, i + 1, IF d < 0 THEN 1 ELSE 0)

WordSub(w, x) == CHOOSE s \in {SubFrom(a, b, 1, 0) : a \in {w}, b \in {x}} : TRUE

\* unsigned w < x, deciding at the most significant byte that differs
RECURSIVE LessFrom(_, _, _)
LessFrom(w, x, i) ==
    IF i = 0 THEN FALSE
    ELSE IF w[i] # x[i] THEN w[i] < x[i]
    ELSE LessFrom(w, x, i - 1)

WordLess(w, x) == \E a \in {w}, b \in {x} : LessFrom(a, b, Len(a))

\* the sum of w[i] * x[k + 1 - i] over the byte pairs of column k
RECURSIVE ColumnSum(_, _, _, _)
ColumnSum(w, x, k, i) ==
    IF i > Len(w) \/ i > k THEN 0
    ELSE (IF k + 1 - i <= Len(x) THEN w[i] * x[k + 1 - i] ELSE 0)
         + ColumnSum(w, x, k, i + 1)

\* the low n bytes of w * x, from column k on with carry c
RECURSIVE MulFrom(_, _, _, _, _)
MulFrom(w, x, k, n, c) ==
    IF k > n THEN <<>>
    ELSE LET s == ColumnSum(w, x, k, 1) + c
         IN  <<s % ByteBase>> \o MulFrom(w, x, k + 1, n, s \div ByteBase)

\* the full product, of Len(w) + Len(x) bytes
WordMulWide(w, x) ==
    CHOOSE p \in {MulFrom(a, b, 1, Len(a) + Len(b), 0) : a \in {w}, b \in {x}} : TRUE

\* uint64_t multiplication: the product modulo 2^64
WordMul(w, x) ==
    CHOOSE p \in {MulFrom(a, b, 1, Len(a), 0) : a \in {w}, b \in {x}} : TRUE

\* bit j (0 the least significant) of w
Bit(w, j) == (w[(j \div 8) + 1] \div (2 ^ (j % 8))) % 2

\* 2 * r + b modulo ByteBase^Len(r)
ShiftIn(r, b) ==
    [i \in 1..Len(r) |->
        ((2 * r[i]) % ByteBase) + (IF i = 1 THEN b ELSE r[i - 1] \div (ByteBase \div 2))]

\* uint64_t division w / d (d # 0): restoring division, from bit j down,
\* with quotient q and remainder r (one byte wider than the operands)
RECURSIVE DivFrom(_, _, _, _, _)
DivFrom(w, d, j, q, r) ==
    IF j < 0 THEN q
    ELSE LET r2 == ShiftIn(r, Bit(w, j))
         IN  IF WordLess(r2, d)
             THEN DivFrom(w, d, j - 1, q, r2)
             ELSE DivFrom(w, d, j - 1,
                          [q EXCEPT ![(j \div 8) + 1] = @ + 2 ^ (j % 8)],
                          WordSub(r2, d))

WordDiv(w, d) ==
    CHOOSE q \in {DivFrom(a, b, (8 * Len(a)) - 1, FromNat(0, Len(a)), FromNat(0, Len(a) + 1)) :
                     a \in {w}, b \in {Resize(d, Len(w) + 1)}} : TRUE

(***************************************************************************)
(* enum TimeUnit : uint8_t.  The enumerators are consecutive, and each     *)
(* unit is 1000 times the one before it.                                   *)
(***************************************************************************)
Attosecond == 0

Femtosecond == 1

Picosecond == 2

Nanosecond == 3

Microsecond == 4

Millisecond == 5

Second == 6

TimeUnit == Attosecond..Second

\* the literal 1000ULL of conversionFactor
Thousand == 1000

(***************************************************************************)
(* A value of T = int64_t is its sign and its magnitude (a word); zero is  *)
(* not negative.  The conversions between T and uint64_t are the           *)
(* value-preserving-modulo-2^64 conversions of the language.               *)
(***************************************************************************)
TValue(negative, magnitude) ==
    CHOOSE v \in {[neg |-> negative /\ ~IsZero(m), mag |-> m] : m \in {magnitude}} : TRUE

\* T(0)
TZero == TValue(FALSE, FromNat(0, NumBytes))

\* static_cast<uint64_t>(v): a negative v becomes 2^64 - |v|
ToUint64_magnitude(v) == v.mag

ToUint64(v) ==
    IF v.neg THEN WordSub(FromNat(0, NumBytes), v.mag) ELSE v.mag

\* static_cast<int64_t>(u): a word from 2^63 on is the negative u - 2^64
FromUint64(u) ==
    CHOOSE v \in {IF w[NumBytes] >= ByteBase \div 2
                  THEN TValue(TRUE, WordSub(FromNat(0, NumBytes), w))
                  ELSE TValue(FALSE, w) : w \in {u}} : TRUE

\* the comparisons of T
T_less(v, w) ==
    IF v.neg # w.neg THEN v.neg
    ELSE IF v.neg THEN WordLess(w.mag, v.mag)
    ELSE WordLess(v.mag, w.mag)

(***************************************************************************)
(* detail::conversionFactor<fromUnit, toUnit>(), fromUnit >= toUnit: a     *)
(* uint64_t, 1000ULL times the factor from the unit below fromUnit.        *)
(***************************************************************************)
RECURSIVE conversionFactor_uint32(_, _)
conversionFactor_uint32(fromUnit, toUnit) ==
    IF toUnit = fromUnit
    THEN FromNat(1, NumBytes)
    ELSE Resize(Resize(WordMul(FromNat(Thousand, NumBytes),
                               conversionFactor_uint32(fromUnit - 1, toUnit)), 4),
                NumBytes)

RECURSIVE conversionFactor(_, _)
conversionFactor(fromUnit, toUnit) ==
    IF toUnit = fromUnit
    THEN FromNat(1, NumBytes)
    ELSE WordMul(FromNat(Thousand, NumBytes), conversionFactor(fromUnit - 1, toUnit))

(***************************************************************************)
(* detail::convert<fromUnit, toUnit, T>(value).  value and the uint64_t    *)
(* factor are brought to their common type, which is uint64_t; the         *)
(* quotient or product is converted back to T by the return.               *)
(***************************************************************************)
convert_swapped(fromUnit, toUnit, value) ==
    IF fromUnit = toUnit THEN value
    ELSE IF toUnit > fromUnit
    THEN FromUint64(WordMul(ToUint64(value), conversionFactor(toUnit, fromUnit)))
    ELSE FromUint64(WordDiv(ToUint64(value), conversionFactor(fromUnit, toUnit)))

convert(fromUnit, toUnit, value) ==
    IF fromUnit = toUnit THEN value
    ELSE IF toUnit > fromUnit
    THEN FromUint64(WordDiv(ToUint64(value), conversionFactor(toUnit, fromUnit)))
    ELSE FromUint64(WordMul(ToUint64(value), conversionFactor(fromUnit, toUnit)))

(***************************************************************************)
(* Bounds of the time model: the stored values are m * 1000^e with         *)
(* |m| <= MaxMantissa and e <= MaxExponent.                                *)
(***************************************************************************)
MaxMantissa == 1

MaxExponent == 1

RECURSIVE Pow1000(_)
Pow1000(k) ==
    IF k = 0 THEN FromNat(1, NumBytes)
    ELSE WordMul(Pow1000(k - 1), FromNat(Thousand, NumBytes))

TValues ==
    {TValue(m < 0, WordMul(FromNat(Abs(m), NumBytes), Pow1000(e))) :
        m \in (0 - MaxMantissa)..MaxMantissa, e \in 0..MaxExponent}

\* an Interval<Unit, T> (value is duration), a Time<Unit, T> (value is
\* timePoint), or a plain T value given with its unit
Object(kind, unit, value) == [kind |-> kind, unit |-> unit, value |-> value]

Objects(kinds) ==
    {Object(k, u, v) : k \in kinds, u \in TimeUnit, v \in TValues}

(***************************************************************************)
(* Conversions as steps: an object is constructed from a raw value, and    *)
(* as<toUnit>() is called on it and then on what the call returned;        *)
(* TimeUtils::interval makes an Interval of a plain value.  orig is the    *)
(* object constructed first, other the receiver of the last call.          *)
(***************************************************************************)
ConvertInit ==
    /\ obj \in Objects({"Interval", "Time", "value"})
    /\ orig = obj
    /\ other = NoObject
    /\ op = "construct"
    /\ result = NoResult
    /\ status = "ok"
    /\ lhs = <<>>
    /\ rhs = <<>>

As(kind, toUnit) ==
    /\ obj.kind = kind
    /\ op \in {"construct", "as"}
    /\ op' = (IF op = "construct" THEN "as" ELSE "as_as")
    /\ obj' = Object(kind, toUnit, convert(obj.unit, toUnit, obj.value))
    /\ other' = obj
    /\ UNCHANGED <<orig, result, status, vecVars>>

Interval_as == \E toUnit \in TimeUnit : As("Interval", toUnit)

Time_as == \E toUnit \in TimeUnit : As("Time", toUnit)

TimeUtils_interval ==
    \E AsUnit \in TimeUnit :
        /\ obj.kind = "value"
        /\ op = "construct"
        /\ op' = "interval"
        /\ obj' = Object("Interval", AsUnit, convert(obj.unit, AsUnit, obj.value))
        /\ other' = obj
        /\ UNCHANGED <<orig, result, status, vecVars>>

ConvertNext ==
    \/ Interval_as
    \/ Time_as
    \/ TimeUtils_interval

SpecConvert == ConvertInit /\ [][ConvertNext]_vars

(***************************************************************************)
(* Comparisons as steps: two Intervals (or two Times) of any two units are *)
(* constructed and one comparison operator is applied, obj on the left and *)
(* other on the right.  Each operator passes other's stored value to       *)
(* convert<Unit, OtherUnit, T>, Unit being the unit of the left operand.   *)
(* The operators read other.duration (other.timePoint), a private member   *)
(* of another class when OtherUnit differs from Unit: the steps are the    *)
(* operator bodies as written.                                             *)
(***************************************************************************)
T_le(v, w) == T_less(v, w) \/ v = w

CompareInit ==
    /\ obj \in Objects({"Interval", "Time"})
    /\ other \in Objects({obj.kind})
    /\ orig = NoObject
    /\ op = "construct"
    /\ result = NoResult
    /\ status = "ok"
    /\ lhs = <<>>
    /\ rhs = <<>>

\* the right operand as the operators convert it
Converted == convert(obj.unit, other.unit, other.value)

Compares(kind, name, value) ==
    /\ obj.kind = kind
    /\ op = "construct"
    /\ op' = name
    /\ result' = value
    /\ UNCHANGED <<obj, other, orig, status, vecVars>>

Interval_eq == Compares("Interval", "eq", obj.value = Converted)

Interval_ne == Compares("Interval", "ne", obj.value # Converted)

Interval_lt == Compares("Interval", "lt", T_less(obj.value, Converted))

Interval_le == Compares("Interval", "le", T_le(obj.value, Converted))

Interval_gt == Compares("Interval", "gt", T_less(Converted, obj.value))

Interval_ge == Compares("Interval", "ge", T_le(Converted, obj.value))

Time_eq == Compares("Time", "eq", obj.value = Converted)

Time_ne == Compares("Time", "ne", obj.value # Converted)

Time_lt == Compares("Time", "lt", T_less(obj.value, Converted))

Time_le == Compares("Time", "le", T_le(obj.value, Converted))

Time_gt == Compares("Time", "gt", T_less(Converted, obj.value))

Time_ge == Compares("Time", "ge", T_le(Converted, obj.value))

CompareNext ==
    \/ Interval_eq
    \/ Interval_ne
    \/ Interval_lt
    \/ Interval_le
    \/ Interval_gt
    \/ Interval_ge
    \/ Time_eq
    \/ Time_ne
    \/ Time_lt
    \/ Time_le
    \/ Time_gt
    \/ Time_ge

SpecCompare == CompareInit /\ [][CompareNext]_vars

(***************************************************************************)
(* Properties of the unit conversion.  The value a conversion is meant to  *)
(* give is computed on the sign and the magnitude of the value: the        *)
(* magnitude times 1000^k, or divided by 1000^k, under the same sign.      *)
(***************************************************************************)
\* the product of the magnitude of v and 1000^k, of 2 * NumBytes bytes
ScaledUp(v, k) == WordMulWide(v.mag, Pow1000(k))

\* a magnitude of 2 * NumBytes bytes is one an int64_t of that sign holds
Fits(negative, wide) ==
    /\ \A i \in (NumBytes + 1)..(2 * NumBytes) : wide[i] = 0
    /\ \/ wide[NumBytes] < ByteBase \div 2
       \/ /\ negative
          /\ wide[NumBytes] = ByteBase \div 2
          /\ \A i \in 1..(NumBytes - 1) : wide[i] = 0

\* v in fromUnit has a value in toUnit that T holds
HasIdeal(fromUnit, toUnit, v) ==
    toUnit < fromUnit => Fits(v.neg, ScaledUp(v, fromUnit - toUnit))

\* v * 1000^k toward a smaller unit, v / 1000^k truncated toward zero
\* toward a larger unit, v itself between equal units
Ideal(fromUnit, toUnit, v) ==
    IF toUnit = fromUnit THEN v
    ELSE IF toUnit > fromUnit
    THEN TValue(v.neg, WordDiv(v.mag, Pow1000(toUnit - fromUnit)))
    ELSE TValue(v.neg, Resize(ScaledUp(v, fromUnit - toUnit), NumBytes))

\* the magnitude m is a multiple of 1000^k
Divisible(m, k) == WordMul(WordDiv(m, Pow1000(k)), Pow1000(k)) = m

(* C8: convert<from, to>(v), and so as<to>() and TimeUtils::interval,      *)
(* returns v * 1000^k toward a smaller unit, v / 1000^k truncated toward   *)
(* zero toward a larger unit and v between equal units, for negative       *)
(* values as for the others.                                               *)
C8_ConvertScalesByThousands ==
    (op \in {"as", "interval"} /\ HasIdeal(other.unit, obj.unit, other.value)) =>
        obj.value = Ideal(other.unit, obj.unit, other.value)

(* C10: x.as<U2>().as<U1>() holds the value of x whenever both steps are   *)
(* exact: U2 is the smaller unit and v * 1000^k is representable, or U2 is *)
(* the larger unit and v is a multiple of 1000^k; for negative v too.      *)
BothStepsExact ==
    \/ other.unit = orig.unit
    \/ /\ other.unit < orig.unit
       /\ Fits(orig.value.neg, ScaledUp(orig.value, orig.unit - other.unit))
    \/ /\ other.unit > orig.unit
       /\ Divisible(orig.value.mag, other.unit - orig.unit)

C10_RoundTripReturnsValue ==
    (op = "as_as" /\ obj.unit = orig.unit /\ BothStepsExact) =>
        obj.value = orig.value

(* C9: a op b, for a in unit U1 and b in unit U2, is the comparison of the *)
(* value of a with the value of b converted from U2 into U1.               *)
IdealRight == Ideal(other.unit, obj.unit, other.value)

C9_ComparesInLeftUnit ==
    (op # "construct" /\ HasIdeal(other.unit, obj.unit, other.value)) =>
        result = CASE op = "eq" -> obj.value = IdealRight
                   [] op = "ne" -> obj.value # IdealRight
                   [] op = "lt" -> T_less(obj.value, IdealRight)
                   [] op = "le" -> T_le(obj.value, IdealRight)
                   [] op = "gt" -> T_less(IdealRight, obj.value)
                   [] op = "ge" -> T_le(IdealRight, obj.value)

(***************************************************************************)
(* Matrix.h.  A Matrix<T, N, M> is its member data, N rows that are each a *)
(* Vector<T, M>: a sequence of N sequences of length M.                    *)
(***************************************************************************)
\* the largest number of rows and of columns
MaxDim == 2
\* matrix elements are drawn from -MaxEntry..MaxEntry
MaxEntry == 1
\* the largest number of elements of a matrix
MaxCells == 4

MatrixElems == (0 - MaxEntry)..MaxEntry

Dims == 1..MaxDim

\* the pairs <<N, M>> a Matrix<T, N, M> of the model is instantiated with
Shapes == {s \in Dims \X Dims : s[1] * s[2] <= MaxCells}

\* explicit Matrix(const T (&data)[N][M]): every N x M matrix over MatrixElems
Matrices(n, m) == [1..n -> [1..m -> MatrixElems]]

\* rows() and cols()
Matrix_rows(A) == Len(A)

Matrix_cols(A) == Len(A[1])

\* Matrix(): every row is assigned Vector<T, M>()
Matrix_default(n, m) == [i \in 1..n |-> Vector_default(m)]

(***************************************************************************)
(* operator+, operator-, operator* (elementwise) of two N x M matrices:    *)
(* the local result is default-constructed and row i of it is assigned     *)
(* the same-size vector operator applied to the rows i of the operands.    *)
(* These are the values of the local variable result at the end of the     *)
(* loop; operator+ returns it.                                             *)
(***************************************************************************)
Matrix_plus_first_row(A, B) ==
    [i \in 1..Matrix_rows(A) |->
        IF i = 1 THEN Vector_plus(A[i], B[i])
        ELSE Matrix_default(Matrix_rows(A), Matrix_cols(A))[i]]

Matrix_plus(A, B) ==
    [i \in 1..Matrix_rows(A) |-> Vector_plus(A[i], B[i])]

Matrix_minus_local(A, B) ==
    [i \in 1..Matrix_rows(A) |-> Vector_minus(A[i], B[i])]

Matrix_times_local(A, B) ==
    [i \in 1..Matrix_rows(A) |-> Vector_times(A[i], B[i])]

(***************************************************************************)
(* matMult(const Matrix<T, M, P>&): result(i, j) is set to T() and the     *)
(* products this[i][k] * other[k][j] are added to it for k = 0..M-1.       *)
(* ProductLoop is the loop over k from k on, acc the value of result(i, j) *)
(* when it is entered, last the bound of the loop.                         *)
(***************************************************************************)
RECURSIVE ProductLoop(_, _, _, _, _, _)
ProductLoop(row, B, j, k, last, acc) ==
    IF k > last THEN acc
    ELSE ProductLoop(row, B, j, k + 1, last, acc + (row[k] * B[k][j]))

Matrix_matMult_from_one(A, B) ==
    [i \in 1..Matrix_rows(A) |->
        [j \in 1..Matrix_cols(B) |-> ProductLoop(A[i], B, j, 1, Matrix_cols(A), 1)]]

Matrix_matMult_short(A, B) ==
    [i \in 1..Matrix_rows(A) |->
        [j \in 1..Matrix_cols(B) |-> ProductLoop(A[i], B, j, 1, Matrix_cols(A) - 1, 0)]]

Matrix_matMult(A, B) ==
    [i \in 1..Matrix_rows(A) |->
        [j \in 1..Matrix_cols(B) |-> ProductLoop(A[i], B, j, 1, Matrix_cols(A), 0)]]

(***************************************************************************)
(* matMult(const Vector<T, M>&): result(i, 0) is set to T() and the        *)
(* products this[i][j] * other[j] are added to it for j = 0..M-1.          *)
(***************************************************************************)
RECURSIVE VectorProductLoop(_, _, _, _)
VectorProductLoop(row, v, j, acc) ==
    IF j > Len(row) THEN acc
    ELSE VectorProductLoop(row, v, j + 1, acc + (row[j] * v[j]))

Matrix_matMult_vector_unsummed(A, v) ==
    [i \in 1..Matrix_rows(A) |-> <<A[i][Matrix_cols(A)] * v[Matrix_cols(A)]>>]

Matrix_matMult_vector(A, v) ==
    [i \in 1..Matrix_rows(A) |-> <<VectorProductLoop(A[i], v, 1, 0)>>]

(***************************************************************************)
(* operator==: the elements are compared row by row, and the first pair    *)
(* that differs returns false.                                             *)
(***************************************************************************)
RECURSIVE Matrix_eq_from(_, _, _, _)
Matrix_eq_from(A, B, i, j) ==
    IF i > Matrix_rows(A) THEN TRUE
    ELSE IF j > Matrix_cols(A) THEN Matrix_eq_from(A, B, i + 1, 1)
    ELSE IF A[i][j] # B[i][j] THEN FALSE
    ELSE Matrix_eq_from(A, B, i, j + 1)

Matrix_eq_first_row(A, B) == Matrix_eq_from(<<A[1]>>, <<B[1]>>, 1, 1)

Matrix_eq(A, B) == Matrix_eq_from(A, B, 1, 1)

(***************************************************************************)
(* The matrix operations as steps.  obj is the matrix the member function  *)
(* is called on; the argument is the matrix other (of the shape of obj, or *)
(* of as many rows as obj has columns) or the vector rhs (of as many       *)
(* elements as obj has columns).  The shapes an operator accepts are those *)
(* its parameter type accepts.  Besides the const operators there is the   *)
(* copy assignment and, on a matrix that was assigned, the assignment to   *)
(* one element through operator()(row, col), each followed by operator==.  *)
(***************************************************************************)
IsMatrix(X) == X # NoObject

SameShape(A, B) ==
    /\ Matrix_rows(A) = Matrix_rows(B)
    /\ Matrix_cols(A) = Matrix_cols(B)

MatrixInit ==
    /\ \E s \in Shapes : obj \in Matrices(s[1], s[2])
    /\ \/ /\ \E s \in Shapes :
                /\ \/ s[1] = Matrix_cols(obj)
                   \/ s = <<Matrix_rows(obj), Matrix_cols(obj)>>
                /\ other \in Matrices(s[1], s[2])
          /\ rhs = <<>>
       \/ /\ other = NoObject
          /\ rhs \in [1..Matrix_cols(obj) -> MatrixElems]
    /\ lhs = <<>>
    /\ orig = NoObject
    /\ op = "construct"
    /\ result = NoResult
    /\ status = "ok"

MatrixReturns(name, value) ==
    /\ op' = name
    /\ result' = value
    /\ UNCHANGED <<obj, other, orig, status, vecVars>>

MatrixPlus ==
    /\ op = "construct"
    /\ IsMatrix(other)
    /\ SameShape(obj, other)
    /\ MatrixReturns("matrix_plus", Matrix_plus(obj, other))

MatrixMatMult ==
    /\ op = "construct"
    /\ IsMatrix(other)
    /\ Matrix_rows(other) = Matrix_cols(obj)
    /\ MatrixReturns("matMult", Matrix_matMult(obj, other))

MatrixMatMultVector ==
    /\ op = "construct"
    /\ ~IsMatrix(other)
    /\ MatrixReturns("matMult_vector", Matrix_matMult_vector(obj, rhs))

\* Matrix& operator=(const Matrix&), implicitly defined: the rows are copied
MatrixAssign ==
    /\ op = "construct"
    /\ IsMatrix(other)
    /\ SameShape(obj, other)
    /\ op' = "assign"
    /\ obj' = other
    /\ UNCHANGED <<other, orig, result, status, vecVars>>

\* obj(row, col) = value, row < N and col < M
MatrixSet ==
    /\ op = "assign"
    /\ \E row \in 1..Matrix_rows(obj), col \in 1..Matrix_cols(obj), value \in MatrixElems :
          obj' = [obj EXCEPT ![row][col] = value]
    /\ op' = "set"
    /\ UNCHANGED <<other, orig, result, status, vecVars>>

MatrixEqual ==
    /\ op \in {"construct", "assign", "set"}
    /\ IsMatrix(other)
    /\ SameShape(obj, other)
    /\ MatrixReturns(IF op = "construct" THEN "matrix_eq" ELSE IF op = "assign" THEN "assign_eq" ELSE "set_eq",
                     Matrix_eq(obj, other))

MatrixNext ==
    \/ MatrixPlus
    \/ MatrixMatMult
    \/ MatrixMatMultVector
    \/ MatrixAssign
    \/ MatrixSet
    \/ MatrixEqual

SpecMatrix == MatrixInit /\ [][MatrixNext]_vars

(***************************************************************************)
(* Properties of the matrix operators.                                     *)
(***************************************************************************)
\* the sum of f[1], ..., f[n]
RECURSIVE SumOf(_, _)
SumOf(f, n) == IF n = 0 THEN 0 ELSE f[n] + SumOf(f, n - 1)

\* the column j of B as a vector
Column(B, j) == [k \in 1..Matrix_rows(B) |-> B[k][j]]

\* the M x 1 matrix whose single column is v
AsColumn(v) == [k \in 1..Len(v) |-> <<v[k]>>]

(* C11: A.matMult(B), A of N x M and B of M x P, is the N x P matrix whose *)
(* element (i, j) is the sum over k of A(i, k) * B(k, j); the product of   *)
(* [[1,2,3],[4,5,6]] and [[1,2,3,4],[5,6,7,8],[9,10,11,12]] is             *)
(* [[38,44,50,56],[83,98,113,128]].                                        *)
C11_MatMultIsRowByColumn ==
    /\ Matrix_matMult(<<<<1, 2, 3>>, <<4, 5, 6>>>>,
                      <<<<1, 2, 3, 4>>, <<5, 6, 7, 8>>, <<9, 10, 11, 12>>>>)
          = <<<<38, 44, 50, 56>>, <<83, 98, 113, 128>>>>
    /\ op = "matMult" =>
        /\ Matrix_rows(result) = Matrix_rows(obj)
        /\ Matrix_cols(result) = Matrix_cols(other)
        /\ \A i \in 1..Matrix_rows(obj), j \in 1..Matrix_cols(other) :
              result[i][j] =
                  SumOf([k \in 1..Matrix_cols(obj) |-> obj[i][k] * other[k][j]], Matrix_cols(obj))

C11_Witness ==
    /\ op = "matMult"
    /\ obj = <<<<1, 1>>>>
    /\ other = <<<<1, -1>>, <<1, 0>>>>
    /\ result = <<<<2, -1>>>>

(***************************************************************************)
(* operator-(const Matrix&) and the elementwise operator*(const Matrix&)   *)
(* as steps.  Both functions fill the local variable result and end        *)
(* without a return statement.  Flowing off the end of a function that     *)
(* returns a value is undefined behaviour: the call traps, or the caller   *)
(* reads a matrix that was never returned, which may hold any elements,    *)
(* those of the local result among them.                                   *)
(***************************************************************************)
NoReturnInit ==
    /\ \E s \in Shapes :
          /\ obj \in Matrices(s[1], s[2])
          /\ other \in Matrices(s[1], s[2])
    /\ lhs = <<>>
    /\ rhs = <<>>
    /\ orig = NoObject
    /\ op = "construct"
    /\ result = NoResult
    /\ status = "ok"

FallsOffEnd(name, local) ==
    /\ op = "construct"
    /\ op' = name
    /\ \/ /\ status' = "trap"
          /\ result' = NoResult
       \/ /\ status' = "ok"
          /\ result' \in Matrices(Matrix_rows(obj), Matrix_cols(obj)) \cup {local}
    /\ UNCHANGED <<obj, other, orig, vecVars>>

MatrixMinus == FallsOffEnd("matrix_minus", Matrix_minus_local(obj, other))

MatrixTimes == FallsOffEnd("matrix_times", Matrix_times_local(obj, other))

NoReturnNext ==
    \/ MatrixMinus
    \/ MatrixTimes

SpecMatrixNoReturn == NoReturnInit /\ [][NoReturnNext]_vars

(* C12: Matrix - Matrix and the elementwise Matrix * Matrix each return a  *)
(* value, the N x M matrix whose element (i, j) is A(i, j) - B(i, j),      *)
(* respectively A(i, j) * B(i, j).                                         *)
C12_MinusAndTimesReturnElementwise ==
    op \in {"matrix_minus", "matrix_times"} =>
        /\ status = "ok"
        /\ result # NoResult
        /\ \A i \in 1..Matrix_rows(obj), j \in 1..Matrix_cols(obj) :
              result[i][j] = IF op = "matrix_minus"
                             THEN obj[i][j] - other[i][j]
                             ELSE obj[i][j] * other[i][j]

\* the element (i, j) of what operator+ returned is A(i, j) + B(i, j)
PlusIsElementwise ==
    op = "matrix_plus" =>
        /\ status = "ok"
        /\ SameShape(result, obj)
        /\ \A i \in 1..Matrix_rows(obj), j \in 1..Matrix_cols(obj) :
              result[i][j] = obj[i][j] + other[i][j]

\* a step of operator+ leaves both operands as they were
PlusKeepsOperands ==
    op' = "matrix_plus" => (obj' = obj /\ other' = other)

(* C13: Matrix + Matrix on two N x M matrices returns the N x M matrix     *)
(* whose element (i, j) is A(i, j) + B(i, j), and leaves both operands     *)
(* unchanged.                                                              *)
C13_PlusIsElementwise == [](PlusIsElementwise) /\ [][PlusKeepsOperands]_vars

C13_Witness ==
    /\ op = "matrix_plus"
    /\ obj = <<<<1, -1>>, <<0, 1>>>>
    /\ other = <<<<1, 1>>, <<-1, 0>>>>
    /\ result = <<<<2, 0>>, <<-1, 1>>>>

(***************************************************************************)
(* Division by a scalar.  Each of the six operators starts with            *)
(* assert(scalar != T()) (Vector, Matrix) or assert(value != 0)            *)
(* (Interval), ahead of every division and every store; the assertions are *)
(* compiled in (NDEBUG is not defined).  An outcome is the status of the   *)
(* call and, where it returned, its value.                                 *)
(***************************************************************************)
Checked_never(condition, value) ==
    [status |-> "ok", value |-> IF condition THEN value ELSE NoResult]

\* assert(condition); ... return value;
Checked(condition, value) ==
    IF condition
    THEN [status |-> "ok", value |-> value]
    ELSE [status |-> "abort", value |-> NoResult]

\* Vector operator/(const T&) and operator/=(const T&): every slot is divided
Vector_divide_scalar(a, scalar) ==
    Checked(scalar # 0, [i \in 1..Len(a) |-> TruncDiv(a[i], scalar)])

\* Matrix operator/(const T&) and operator/=(const T&): every element is divided
Matrix_divide_scalar(A, scalar) ==
    Checked(scalar # 0,
            [i \in 1..Matrix_rows(A) |->
                [j \in 1..Matrix_cols(A) |-> TruncDiv(A[i][j], scalar)]])

\* the division of T = int64_t, truncating toward zero
T_divide(v, w) == TValue(v.neg # w.neg, WordDiv(v.mag, w.mag))

\* Interval operator/(T) and operator/=(T)
Interval_divide_scalar(duration, value) ==
    Checked(value # TZero, T_divide(duration, value))

\* a Vector<T, N> or a Matrix<T, N, M> as the object of a call
Holder(kind, value) == [kind |-> kind, value |-> value]

DivideInit ==
    /\ \/ /\ obj \in {Holder("Vector", v) : v \in Vectors}
          /\ other \in Elems
       \/ /\ obj \in {Holder("Matrix", A) : A \in UNION {Matrices(s[1], s[2]) : s \in Shapes}}
          /\ other \in MatrixElems
       \/ /\ obj \in Objects({"Interval"})
          /\ other \in TValues
    /\ orig = obj
    /\ lhs = <<>>
    /\ rhs = <<>>
    /\ op = "construct"
    /\ result = NoResult
    /\ status = "ok"

\* a const operator/: the quotient is returned, the object is left alone
DivideReturns(kind, name, outcome) ==
    /\ op = "construct"
    /\ obj.kind = kind
    /\ op' = name
    /\ status' = outcome.status
    /\ result' = outcome.value
    /\ UNCHANGED <<obj, other, orig, vecVars>>

\* an operator/=: the quotient is stored into the object
DivideAssigns(kind, name, outcome) ==
    /\ op = "construct"
    /\ obj.kind = kind
    /\ op' = name
    /\ status' = outcome.status
    /\ obj' = IF outcome.status = "ok" THEN [obj EXCEPT !.value = outcome.value] ELSE obj
    /\ UNCHANGED <<other, orig, result, vecVars>>

VectorDivideScalar ==
    DivideReturns("Vector", "Vector_div", Vector_divide_scalar(obj.value, other))

VectorDivideAssignScalar ==
    DivideAssigns("Vector", "Vector_div_assign", Vector_divide_scalar(obj.value, other))

MatrixDivideScalar ==
    DivideReturns("Matrix", "Matrix_div", Matrix_divide_scalar(obj.value, other))

MatrixDivideAssignScalar ==
    DivideAssigns("Matrix", "Matrix_div_assign", Matrix_divide_scalar(obj.value, other))

\* operator/ returns an Interval of the same unit
IntervalDivideScalar ==
    /\ obj.kind = "Interval"
    /\ \E outcome \in {Interval_divide_scalar(obj.value, other)} :
          DivideReturns("Interval", "Interval_div",
                        [status |-> outcome.status,
                         value |-> IF outcome.status = "ok"
                                   THEN Object("Interval", obj.unit, outcome.value)
                                   ELSE NoResult])

IntervalDivideAssignScalar ==
    /\ obj.kind = "Interval"
    /\ DivideAssigns("Interval", "Interval_div_assign", Interval_divide_scalar(obj.value, other))

DivideNext ==
    \/ VectorDivideScalar
    \/ VectorDivideAssignScalar
    \/ MatrixDivideScalar
    \/ MatrixDivideAssignScalar
    \/ IntervalDivideScalar
    \/ IntervalDivideAssignScalar

SpecDivide == DivideInit /\ [][DivideNext]_vars

\* the scalar of the call is the additive identity of T
ScalarIsZero == IF obj.kind = "Interval" THEN other = TZero ELSE other = 0

DivideOps ==
    {"Vector_div", "Vector_div_assign", "Matrix_div", "Matrix_div_assign",
     "Interval_div", "Interval_div_assign"}

(* C14: a division of a Vector, a Matrix or an Interval by the scalar zero *)
(* aborts: it returns no value, and /= leaves the object as it was; a      *)
(* division by another scalar does not abort.                              *)
C14_ScalarDivisionByZeroAborts ==
    op \in DivideOps =>
        IF ScalarIsZero
        THEN /\ status = "abort"
             /\ result = NoResult
             /\ obj = orig
        ELSE status = "ok"

C14_Witness ==
    /\ op = "Matrix_div_assign"
    /\ other = 0
    /\ obj.value = <<<<1, -1>>, <<0, 1>>>>
    /\ status = "abort"

(***************************************************************************)
(* The compound assignments of Vector.  operator+=, operator-= and         *)
(* operator*= take a Vector<T, M> with N >= M and update the first M slots *)
(* of this in place; operator/= takes a Vector<T, N> and asserts, slot by  *)
(* slot, that the divisor is not T() before it divides the slot.           *)
(***************************************************************************)
Vector_plus_assign_padded(a, b) ==
    [i \in 1..Len(a) |-> IF i <= Len(b) THEN a[i] + b[i] ELSE 0]

Vector_plus_assign(a, b) ==
    [i \in 1..Len(a) |-> IF i <= Len(b) THEN a[i] + b[i] ELSE a[i]]

Vector_minus_assign(a, b) ==
    [i \in 1..Len(a) |-> IF i <= Len(b) THEN a[i] - b[i] ELSE a[i]]

Vector_times_assign(a, b) ==
    [i \in 1..Len(a) |-> IF i <= Len(b) THEN a[i] * b[i] ELSE a[i]]

\* the loop of operator/= from slot i on: the outcome of the call and the
\* elements this holds when it ends
RECURSIVE DivideAssignLoop(_, _, _)
DivideAssignLoop(a, b, i) ==
    IF i > Len(a) THEN [status |-> "ok", value |-> a]
    ELSE IF b[i] = 0 THEN [status |-> "abort", value |-> a]
    ELSE DivideAssignLoop([a EXCEPT ![i] = TruncDiv(a[i], b[i])], b, i + 1)

Vector_divide_assign(a, b) == DivideAssignLoop(a, b, 1)

(***************************************************************************)
(* The compound assignments as steps, in any sequence: lhs is the vector   *)
(* that is assigned to, rhs the right-hand vector, constructed before each *)
(* assignment, and orig the elements of lhs when rhs was constructed.  A   *)
(* step is taken where the elements stay within Elems.                     *)
(***************************************************************************)
InElems(v) == \A i \in 1..Len(v) : v[i] \in Elems

AssignInit ==
    /\ lhs \in Vectors
    /\ rhs \in Vectors
    /\ orig = lhs
    /\ op = "construct"
    /\ result = NoResult
    /\ status = "ok"
    /\ obj = NoObject
    /\ other = NoObject

\* the next right-hand vector is constructed
ConstructOperand ==
    /\ op # "construct"
    /\ status = "ok"
    /\ rhs' \in Vectors
    /\ orig' = lhs
    /\ op' = "construct"
    /\ UNCHANGED <<lhs, result, status, obj, other>>

Assigns(name, value) ==
    /\ op = "construct"
    /\ Len(lhs) >= Len(rhs)
    /\ InElems(value)
    /\ op' = name
    /\ lhs' = value
    /\ UNCHANGED <<rhs, orig, result, status, obj, other>>

PlusAssign == Assigns("plus_assign", Vector_plus_assign(lhs, rhs))

MinusAssign == Assigns("minus_assign", Vector_minus_assign(lhs, rhs))

TimesAssign == Assigns("times_assign", Vector_times_assign(lhs, rhs))

DivideAssign ==
    /\ op = "construct"
    /\ Len(lhs) = Len(rhs)
    /\ op' = "divide_assign"
    /\ \E outcome \in {Vector_divide_assign(lhs, rhs)} :
          /\ status' = outcome.status
          /\ lhs' = outcome.value
    /\ UNCHANGED <<rhs, orig, result, obj, other>>

AssignNext ==
    \/ ConstructOperand
    \/ PlusAssign
    \/ MinusAssign
    \/ TimesAssign
    \/ DivideAssign

SpecAssign == AssignInit /\ [][AssignNext]_vars

(* C15: a / b (N <= M) and a /= b abort, without returning or storing a    *)
(* value, whenever a component of b that is divided into is zero.  Stated  *)
(* for a / b: where such a component is zero the call returns no value.    *)
C15_VectorDivisionFailsFast ==
    (op = "divide" /\ DividesByZero(lhs, rhs)) =>
        /\ status # "ok"
        /\ result = NoResult

(* C16: a *= b (M <= N) leaves a[i] = old a[i] * b[i] for i < M and        *)
(* a[i] = 0 for M <= i < N, which is the value of a * b.                   *)
C16_TimesAssignZeroPads ==
    op = "times_assign" =>
        /\ lhs = Vector_times(orig, rhs)
        /\ \A i \in 1..Len(lhs) :
              lhs[i] = IF i <= Len(rhs) THEN orig[i] * rhs[i] ELSE 0

\* after a += b or a -= b, a is the value of a + b, respectively a - b:
\* slots below M are updated, slots from M on are as they were
PlusMinusAssignAsBinary ==
    op \in {"plus_assign", "minus_assign"} =>
        /\ Len(lhs) = Len(orig)
        /\ lhs = IF op = "plus_assign" THEN Vector_plus(orig, rhs) ELSE Vector_minus(orig, rhs)
        /\ \A i \in 1..Len(lhs) :
              lhs[i] = IF i > Len(rhs) THEN orig[i]
                       ELSE IF op = "plus_assign" THEN orig[i] + rhs[i]
                       ELSE orig[i] - rhs[i]

\* a step of += or -= leaves the right-hand vector and the size of a alone
PlusMinusAssignKeepsOperand ==
    op' \in {"plus_assign", "minus_assign"} => (rhs' = rhs /\ Len(lhs') = Len(lhs))

(* C17: through any sequence of += and -= with right-hand vectors of sizes *)
(* M <= N, a stays of size N and after each step is the value of a + b,    *)
(* respectively a - b; the right-hand vector is not modified.              *)
C17_PlusMinusAssignAsBinary ==
    [](PlusMinusAssignAsBinary) /\ [][PlusMinusAssignKeepsOperand]_vars

C17_Witness ==
    /\ op = "minus_assign"
    /\ orig = <<2, -1>>
    /\ rhs = <<1>>
    /\ lhs = <<1, -1>>

(***************************************************************************)
(* Indexed access.  The indices are size_t values counted from 0, and slot *)
(* index of the data is element index + 1 of the sequence.  Each accessor  *)
(* asserts that its indices are in range before it touches the data.       *)
(***************************************************************************)
\* Vector operator[](size_t index), const and not
Vector_at(a, index) == Checked(index < Len(a), a[index + 1])

\* operator[](index) = value, through the reference the accessor returns
Vector_store(a, index, value) ==
    Checked(index < Len(a), [a EXCEPT ![index + 1] = value])

Swapped_overwriting(a, index1, index2) ==
    [k \in 1..Len(a) |-> IF k = index1 + 1 THEN a[index2 + 1] ELSE a[k]]

\* std::swap(data[index1], data[index2])
Swapped(a, index1, index2) ==
    [k \in 1..Len(a) |->
        IF k = index1 + 1 THEN a[index2 + 1]
        ELSE IF k = index2 + 1 THEN a[index1 + 1]
        ELSE a[k]]

Vector_swap_ignoring(a, index1, index2) ==
    [status |-> "ok",
     value |-> IF index1 < Len(a) /\ index2 < Len(a) THEN Swapped(a, index1, index2) ELSE a]

\* Vector swap(size_t index1, size_t index2), in place and const
Vector_swap(a, index1, index2) ==
    Checked(index1 < Len(a) /\ index2 < Len(a), Swapped(a, index1, index2))

\* Matrix operator()(size_t row, size_t col), const and not
Matrix_at(A, row, col) ==
    Checked(row < Matrix_rows(A) /\ col < Matrix_cols(A), A[row + 1][col + 1])

\* Matrix operator[](size_t row), const and not
Matrix_row(A, row) == Checked(row < Matrix_rows(A), A[row + 1])

(***************************************************************************)
(* The accesses as steps: obj is the vector or the matrix, other the       *)
(* indices of the call, orig the object as constructed.  The indices run   *)
(* from 0 up to the largest size, which is out of range for every object.  *)
(***************************************************************************)
VectorIndices == 0..MaxN

MatrixIndices == 0..MaxDim

AccessInit ==
    /\ \/ obj \in {Holder("Vector", v) : v \in Vectors}
       \/ obj \in {Holder("Matrix", A) : A \in UNION {Matrices(s[1], s[2]) : s \in Shapes}}
    /\ orig = obj
    /\ other = NoObject
    /\ lhs = <<>>
    /\ rhs = <<>>
    /\ op = "construct"
    /\ result = NoResult
    /\ status = "ok"

\* an accessor that returns an element, a row or a copy
Reads(kind, name, indices, outcome) ==
    /\ op = "construct"
    /\ obj.kind = kind
    /\ op' = name
    /\ other' = indices
    /\ status' = outcome.status
    /\ result' = outcome.value
    /\ UNCHANGED <<obj, orig, vecVars>>

\* a member function that changes the object
Writes(kind, name, indices, outcome) ==
    /\ op = "construct"
    /\ obj.kind = kind
    /\ op' = name
    /\ other' = indices
    /\ status' = outcome.status
    /\ obj' = IF outcome.status = "ok" THEN [obj EXCEPT !.value = outcome.value] ELSE obj
    /\ UNCHANGED <<orig, result, vecVars>>

VectorIndex ==
    \E index \in VectorIndices :
        Reads("Vector", "Vector_at", <<index>>, Vector_at(obj.value, index))

VectorIndexStore ==
    \E index \in VectorIndices, value \in Elems :
        Writes("Vector", "Vector_store", <<index, value>>, Vector_store(obj.value, index, value))

VectorSwap ==
    \E index1 \in VectorIndices, index2 \in VectorIndices :
        Writes("Vector", "Vector_swap", <<index1, index2>>, Vector_swap(obj.value, index1, index2))

VectorSwapConst ==
    \E index1 \in VectorIndices, index2 \in VectorIndices :
        Reads("Vector", "Vector_swap_const", <<index1, index2>>,
              Vector_swap(obj.value, index1, index2))

MatrixAt ==
    \E row \in MatrixIndices, col \in MatrixIndices :
        Reads("Matrix", "Matrix_at", <<row, col>>, Matrix_at(obj.value, row, col))

MatrixRow ==
    \E row \in MatrixIndices :
        Reads("Matrix", "Matrix_row", <<row>>, Matrix_row(obj.value, row))

AccessNext ==
    \/ VectorIndex
    \/ VectorIndexStore
    \/ VectorSwap
    \/ VectorSwapConst
    \/ MatrixAt
    \/ MatrixRow

SpecAccess == AccessInit /\ [][AccessNext]_vars

\* the indices of the call are within the object as constructed
InRange ==
    CASE op \in {"Vector_at", "Vector_store"} -> other[1] < Len(orig.value)
      [] op \in {"Vector_swap", "Vector_swap_const"} ->
            other[1] < Len(orig.value) /\ other[2] < Len(orig.value)
      [] op = "Matrix_at" ->
            other[1] < Len(orig.value) /\ other[2] < Len(orig.value[1])
      [] op = "Matrix_row" -> other[1] < Len(orig.value)

\* v with the elements at the 0-based indices i and j exchanged
Exchanged(v, w, i, j) ==
    /\ Len(w) = Len(v)
    /\ w[i + 1] = v[j + 1]
    /\ w[j + 1] = v[i + 1]
    /\ \A k \in 1..Len(v) : (k # i + 1 /\ k # j + 1) => w[k] = v[k]

(* C18: an access with an index out of range aborts and neither returns    *)
(* nor writes an element (Vector operator[], both swaps, Matrix            *)
(* operator() and operator[]); an access in range returns, or writes, the  *)
(* addressed element.                                                      *)
C18_OutOfRangeAborts ==
    op # "construct" =>
        IF InRange
        THEN /\ status = "ok"
             /\ CASE op = "Vector_at" -> result = orig.value[other[1] + 1] /\ obj = orig
                  [] op = "Vector_store" ->
                        obj.value = [orig.value EXCEPT ![other[1] + 1] = other[2]]
                  [] op = "Vector_swap" -> Exchanged(orig.value, obj.value, other[1], other[2])
                  [] op = "Vector_swap_const" ->
                        Exchanged(orig.value, result, other[1], other[2]) /\ obj = orig
                  [] op = "Matrix_at" ->
                        result = orig.value[other[1] + 1][other[2] + 1] /\ obj = orig
                  [] op = "Matrix_row" -> result = orig.value[other[1] + 1] /\ obj = orig
        ELSE /\ status = "abort"
             /\ result = NoResult
             /\ obj = orig

C18_Witness ==
    /\ op = "Vector_swap"
    /\ orig.value = <<1, 2>>
    /\ other = <<0, 2>>
    /\ status = "abort"
    /\ obj = orig

(***************************************************************************)
(* Properties of the matrix equality and of the product with a vector.     *)
(***************************************************************************)
\* the positions at which the two matrices hold different elements
DifferingCells ==
    {c \in (1..Matrix_rows(obj)) \X (1..Matrix_cols(obj)) : obj[c[1]][c[2]] # other[c[1]][c[2]]}

(* C19: A == B on two N x M matrices is true exactly when A(i, j) = B(i, j) *)
(* for every i and j: a matrix assigned from another compares equal to it, *)
(* and two matrices that differ in a single element compare unequal.       *)
C19_EqualityIsElementwise ==
    op \in {"matrix_eq", "assign_eq", "set_eq"} =>
        /\ result = (\A i \in 1..Matrix_rows(obj), j \in 1..Matrix_cols(obj) :
                        obj[i][j] = other[i][j])
        /\ op = "assign_eq" => result = TRUE
        /\ Cardinality(DifferingCells) = 1 => result = FALSE

C19_Witness ==
    /\ op = "set_eq"
    /\ obj = <<<<1, 0>>, <<0, 1>>>>
    /\ other = <<<<1, 0>>, <<0, 0>>>>
    /\ result = FALSE

(* C20: A.matMult(v), A of N x M and v of size M, is the N x 1 matrix with *)
(* result(i, 0) the sum over j of A(i, j) * v[j], and it is A.matMult(C)   *)
(* for the M x 1 matrix C whose single column is v.                        *)
C20_MatMultVectorIsColumnProduct ==
    op = "matMult_vector" =>
        /\ Matrix_rows(result) = Matrix_rows(obj)
        /\ Matrix_cols(result) = 1
        /\ \A i \in 1..Matrix_rows(obj) :
              result[i][1] = SumOf([j \in 1..Matrix_cols(obj) |-> obj[i][j] * rhs[j]], Matrix_cols(obj))
        /\ result = Matrix_matMult(obj, AsColumn(rhs))

C20_Witness ==
    /\ op = "matMult_vector"
    /\ obj = <<<<1, -1>>, <<1, 1>>>>
    /\ rhs = <<1, 1>>
    /\ result = <<<<0>>, <<2>>>>

(***************************************************************************)
(* dot and cross.  dot takes a Vector<T, N> of the size of this and adds   *)
(* the products of the slots to an accumulator that starts at T().  cross  *)
(* is defined for N == 3 and reads the slots 0, 1, 2 through the members   *)
(* x, y, z that share their storage with data.                             *)
(***************************************************************************)
\* the loop of dot from slot i on, acc the accumulator when it is entered
RECURSIVE DotLoop(_, _, _, _)
DotLoop(a, b, i, acc) ==
    IF i > Len(a) THEN acc
    ELSE DotLoop(a, b, i + 1, acc + (a[i] * b[i]))

Vector_dot_from_one(a, b) == DotLoop(a, b, 1, 1)

Vector_dot(a, b) == DotLoop(a, b, 1, 0)

\* the members x, y, z of VectorBase
Vector_x(a) == a[1]

Vector_y(a) == a[2]

Vector_z(a) == a[3]

Vector_cross_commuted(a, b) ==
    <<(Vector_y(a) * Vector_z(b)) - (Vector_z(a) * Vector_y(b)),
      (Vector_x(a) * Vector_z(b)) - (Vector_z(a) * Vector_x(b)),
      (Vector_x(a) * Vector_y(b)) - (Vector_y(a) * Vector_x(b))>>

Vector_cross(a, b) ==
    <<(Vector_y(a) * Vector_z(b)) - (Vector_z(a) * Vector_y(b)),
      (Vector_z(a) * Vector_x(b)) - (Vector_x(a) * Vector_z(b)),
      (Vector_x(a) * Vector_y(b)) - (Vector_y(a) * Vector_x(b))>>

(***************************************************************************)
(* The products as steps: two vectors of one size are constructed; dot is  *)
(* applied to them, and on vectors of size 3 cross is applied to them, to  *)
(* them in the other order (the result then negated), and to the first     *)
(* with itself; after a.cross(b), a.dot and b.dot are applied to what it   *)
(* returned, and other holds the two scalars.                              *)
(***************************************************************************)
\* static_assert(N == 3) of cross
CrossSize == 3

ProductInit ==
    /\ \E n \in Sizes \cup {CrossSize} :
          /\ lhs \in [1..n -> Elems]
          /\ rhs \in [1..n -> Elems]
    /\ op = "construct"
    /\ result = NoResult
    /\ status = "ok"
    /\ obj = NoObject
    /\ other = NoObject
    /\ orig = NoObject

Dot == Returns("dot", Vector_dot(lhs, rhs))

Cross ==
    /\ Len(lhs) = CrossSize
    /\ Returns("cross", Vector_cross(lhs, rhs))

CrossReversedNegated ==
    /\ Len(lhs) = CrossSize
    /\ Returns("negated_cross_reversed", Vector_negate(Vector_cross(rhs, lhs)))

CrossSelf ==
    /\ Len(lhs) = CrossSize
    /\ Returns("cross_self", Vector_cross(lhs, lhs))

DotCross ==
    /\ op = "cross"
    /\ op' = "dot_cross"
    /\ other' = <<Vector_dot(lhs, result), Vector_dot(rhs, result)>>
    /\ UNCHANGED <<lhs, rhs, result, status, obj, orig>>

ProductNext ==
    \/ Dot
    \/ Cross
    \/ CrossReversedNegated
    \/ CrossSelf
    \/ DotCross

SpecProduct == ProductInit /\ [][ProductNext]_vars

(* C21: a.dot(b), for a and b of one size N, is the sum over i of          *)
(* a[i] * b[i] accumulated from zero, and it is b.dot(a);                  *)
(* (1,2,3).dot((4,5,6)) is 32.                                             *)
C21_DotIsSumOfProducts ==
    /\ Vector_dot(<<1, 2, 3>>, <<4, 5, 6>>) = 32
    /\ op = "dot" =>
          /\ result = SumOf([i \in 1..Len(lhs) |-> lhs[i] * rhs[i]], Len(lhs))
          /\ result = Vector_dot(rhs, lhs)

C21_Witness ==
    /\ op = "dot"
    /\ lhs = <<1, 2>>
    /\ rhs = <<2, -1>>
    /\ result = 0

(* C22: a.cross(b), for a = (x1, y1, z1) and b = (x2, y2, z2), is          *)
(* (y1*z2 - z1*y2, z1*x2 - x1*z2, x1*y2 - y1*x2);                          *)
(* (1,2,3).cross((4,5,6)) is (-3, 6, -3).                                  *)
C22_CrossIsDeterminantForm ==
    /\ Vector_cross(<<1, 2, 3>>, <<4, 5, 6>>) = <<-3, 6, -3>>
    /\ op = "cross" =>
          /\ Len(result) = 3
          /\ result[1] = (lhs[2] * rhs[3]) - (lhs[3] * rhs[2])
          /\ result[2] = (lhs[3] * rhs[1]) - (lhs[1] * rhs[3])
          /\ result[3] = (lhs[1] * rhs[2]) - (lhs[2] * rhs[1])

C22_Witness ==
    /\ op = "cross"
    /\ lhs = <<1, 0, 0>>
    /\ rhs = <<0, 1, 0>>
    /\ result = <<0, 0, 1>>

(***************************************************************************)
(* swap as steps, in any sequence and with indices in range: lhs is the    *)
(* vector, other the indices of the last call, rhs the elements of lhs     *)
(* before the last swap(i, j).  The in-place swap stores into lhs; the     *)
(* const swap returns a copy; SwapAgain is the in-place swap called once   *)
(* more with the indices of the in-place swap before it.                   *)
(***************************************************************************)
\* sizes up to one above MaxN, so that a swap leaves a component aside
SwapSizes == 1..(MaxN + 1)

SwapInit ==
    /\ \E n \in SwapSizes : lhs \in [1..n -> Elems]
    /\ rhs = lhs
    /\ other = NoObject
    /\ op = "construct"
    /\ result = NoResult
    /\ status = "ok"
    /\ obj = NoObject
    /\ orig = NoObject

SwapInPlace ==
    \E index1 \in 0..(Len(lhs) - 1), index2 \in 0..(Len(lhs) - 1) :
        \E outcome \in {Vector_swap(lhs, index1, index2)} :
            /\ op' = "swap"
            /\ other' = <<index1, index2>>
            /\ rhs' = lhs
            /\ status' = outcome.status
            /\ lhs' = outcome.value
            /\ result' = NoResult
            /\ UNCHANGED <<obj, orig>>

SwapAgain ==
    /\ op = "swap"
    /\ \E outcome \in {Vector_swap(lhs, other[1], other[2])} :
          /\ op' = "swap_again"
          /\ status' = outcome.status
          /\ lhs' = outcome.value
          /\ UNCHANGED <<rhs, other, result, obj, orig>>

SwapConstCopy ==
    \E index1 \in 0..(Len(lhs) - 1), index2 \in 0..(Len(lhs) - 1) :
        \E outcome \in {Vector_swap(lhs, index1, index2)} :
            /\ op' = "swap_const"
            /\ other' = <<index1, index2>>
            /\ rhs' = lhs
            /\ status' = outcome.status
            /\ result' = outcome.value
            /\ UNCHANGED <<lhs, obj, orig>>

SwapNext ==
    \/ SwapInPlace
    \/ SwapAgain
    \/ SwapConstCopy

SpecSwap == SwapInit /\ [][SwapNext]_vars

\* the number of slots of v that hold e
Count(v, e) == Cardinality({k \in 1..Len(v) : v[k] = e})

SameMultiset(v, w) ==
    /\ Len(v) = Len(w)
    /\ \A e \in Elems : Count(v, e) = Count(w, e)

\* what the last swap did: the in-place swap exchanged the two components
\* of lhs, the const swap returned the exchange and left lhs, and the same
\* in-place swap twice gave lhs its elements back
SwapExchanges ==
    /\ op = "swap" => Exchanged(rhs, lhs, other[1], other[2])
    /\ op = "swap_const" => (Exchanged(lhs, result, other[1], other[2]) /\ lhs = rhs)
    /\ op = "swap_again" => lhs = rhs

\* a step keeps the multiset of the components, and the const swap keeps lhs
SwapPermutes ==
    /\ SameMultiset(lhs, lhs')
    /\ op' = "swap_const" => lhs' = lhs

(* C23: for indices in range the in-place swap(i, j) exchanges components  *)
(* i and j and leaves the others, the const swap(i, j) returns the         *)
(* exchanged copy and leaves the receiver, every sequence of swaps keeps   *)
(* the multiset of the components, and the same swap twice restores the    *)
(* vector.                                                                 *)
C23_SwapExchangesTwoComponents == [](SwapExchanges) /\ [][SwapPermutes]_vars

C23_Witness ==
    /\ op = "swap_again"
    /\ other = <<0, 2>>
    /\ lhs = <<1, 0, 2>>
    /\ rhs = <<1, 0, 2>>

(***************************************************************************)
(* The arithmetic of Time.  T is int64_t: sums and differences are those   *)
(* of the 64-bit words.  operator+(Interval), operator-(Interval) and the  *)
(* compound forms take an Interval<Unit, T> of the unit of the Time.       *)
(* operator-(const Time&) is declared to return Interval<Unit, T> and      *)
(* returns the expression Interval(timePoint - other.timePoint): inside    *)
(* class Time the name Interval is the class template, its arguments are   *)
(* deduced from the constructor Interval(T), and Unit, which no argument   *)
(* determines, is its default DefaultTimeUnit.  The expression is an       *)
(* Interval<DefaultTimeUnit, T>, and no conversion leads from it to an     *)
(* Interval of another unit: for such a Unit the operator is ill-formed.   *)
(***************************************************************************)
\* constexpr TimeUnit DefaultTimeUnit = TimeUnit::Second
DefaultTimeUnit == Second

T_plus(v, w) == FromUint64(WordAdd(ToUint64(v), ToUint64(w)))

T_minus(v, w) == FromUint64(WordSub(ToUint64(v), ToUint64(w)))

\* Time operator+(const Interval<Unit, T>&) and operator+=
Time_plus(t, d) == Object("Time", t.unit, T_plus(t.value, d.value))

\* Time operator-(const Interval<Unit, T>&) and operator-=
Time_minus(t, d) == Object("Time", t.unit, T_minus(t.value, d.value))

\* Interval<Unit, T> operator-(const Time&)
Time_minus_Time(t, u) ==
    IF t.unit = DefaultTimeUnit
    THEN [status |-> "ok", value |-> Object("Interval", DefaultTimeUnit, T_minus(t.value, u.value))]
    ELSE [status |-> "ill-formed", value |-> NoResult]

(***************************************************************************)
(* The arithmetic as steps: obj is a Time, other a Time or an Interval of  *)
(* the same unit, orig the Time as constructed.  After t1 - t2 has         *)
(* returned an Interval, t2 + (t1 - t2) == t1 is evaluated.                *)
(***************************************************************************)
ArithInit ==
    /\ obj \in Objects({"Time"})
    /\ other \in {Object(k, obj.unit, v) : k \in {"Time", "Interval"}, v \in TValues}
    /\ orig = obj
    /\ lhs = <<>>
    /\ rhs = <<>>
    /\ op = "construct"
    /\ result = NoResult
    /\ status = "ok"

TimeReturns(kind, name, value) ==
    /\ op = "construct"
    /\ other.kind = kind
    /\ op' = name
    /\ result' = value
    /\ UNCHANGED <<obj, other, orig, status, vecVars>>

TimeAssigns(name, value) ==
    /\ op = "construct"
    /\ other.kind = "Interval"
    /\ op' = name
    /\ obj' = value
    /\ UNCHANGED <<other, orig, result, status, vecVars>>

TimePlus == TimeReturns("Interval", "Time_plus", Time_plus(obj, other))

TimeMinus == TimeReturns("Interval", "Time_minus", Time_minus(obj, other))

TimePlusAssign == TimeAssigns("Time_plus_assign", Time_plus(obj, other))

TimeMinusAssign == TimeAssigns("Time_minus_assign", Time_minus(obj, other))

TimeMinusTime ==
    /\ op = "construct"
    /\ other.kind = "Time"
    /\ op' = "Time_minus_Time"
    /\ \E outcome \in {Time_minus_Time(obj, other)} :
          /\ status' = outcome.status
          /\ result' = outcome.value
    /\ UNCHANGED <<obj, other, orig, vecVars>>

\* t2 + (t1 - t2) == t1, with operator== of Time
TimeAddBack ==
    /\ op = "Time_minus_Time"
    /\ status = "ok"
    /\ op' = "add_back"
    /\ result' = (Time_plus(other, result).value = convert(obj.unit, obj.unit, obj.value))
    /\ UNCHANGED <<obj, other, orig, status, vecVars>>

ArithNext ==
    \/ TimePlus
    \/ TimeMinus
    \/ TimePlusAssign
    \/ TimeMinusAssign
    \/ TimeMinusTime
    \/ TimeAddBack

SpecTimeArith == ArithInit /\ [][ArithNext]_vars

\* the integer a value of T of at most four significant bytes stands for
ToInt(v) ==
    (IF v.neg THEN 0 - 1 ELSE 1) *
        (v.mag[1] + (ByteBase * (v.mag[2] + (ByteBase * (v.mag[3] + (ByteBase * v.mag[4]))))))

(* C24: for Times t1, t2 and an Interval d of one unit U, t1 - t2 is an    *)
(* Interval of unit U with duration t1.value - t2.value, t1 + d and t1 - d *)
(* are Times of unit U with the values t1.value + d.duration and           *)
(* t1.value - d.duration, t2 + (t1 - t2) == t1, and += and -= leave the    *)
(* Time equal to the binary result.                                        *)
C24_TimeArithmetic ==
    /\ op = "Time_minus_Time" =>
          /\ status = "ok"
          /\ result.kind = "Interval"
          /\ result.unit = obj.unit
          /\ ToInt(result.value) = ToInt(obj.value) - ToInt(other.value)
    /\ op \in {"Time_plus", "Time_minus"} =>
          /\ result.kind = "Time"
          /\ result.unit = obj.unit
          /\ ToInt(result.value) = IF op = "Time_plus"
                                   THEN ToInt(obj.value) + ToInt(other.value)
                                   ELSE ToInt(obj.value) - ToInt(other.value)
    /\ op = "Time_plus_assign" => obj = Time_plus(orig, other)
    /\ op = "Time_minus_assign" => obj = Time_minus(orig, other)
    /\ op = "add_back" => result = TRUE

(***************************************************************************)
(* Scalar arithmetic of Vector and Matrix.  The binary forms copy (Vector) *)
(* or default-construct (Matrix) a result and combine every slot with the  *)
(* scalar; the compound forms combine every slot of the object in place.   *)
(* operator/ and operator/= are Vector_divide_scalar and                   *)
(* Matrix_divide_scalar above.                                             *)
(***************************************************************************)
Vector_times_scalar_first(a, scalar) ==
    [i \in 1..Len(a) |-> IF i = 1 THEN a[i] * scalar ELSE a[i]]

\* Vector operator+(const T&): result = this; result.data[i] += scalar
Vector_plus_scalar(a, scalar) == [i \in 1..Len(a) |-> a[i] + scalar]

\* Vector operator-(const T&)
Vector_minus_scalar(a, scalar) == [i \in 1..Len(a) |-> a[i] - scalar]

\* Vector operator*(const T&)
Vector_times_scalar(a, scalar) == [i \in 1..Len(a) |-> a[i] * scalar]

\* Vector operator+=(const T&): this->data[i] += scalar
Vector_plus_assign_scalar(a, scalar) == [i \in 1..Len(a) |-> a[i] + scalar]

\* Vector operator-=(const T&)
Vector_minus_assign_scalar(a, scalar) == [i \in 1..Len(a) |-> a[i] - scalar]

\* Vector operator*=(const T&)
Vector_times_assign_scalar(a, scalar) == [i \in 1..Len(a) |-> a[i] * scalar]

\* Matrix operator+(const T&): result(i, j) = this[i][j] + scalar
Matrix_plus_scalar(A, scalar) ==
    [i \in 1..Matrix_rows(A) |-> [j \in 1..Matrix_cols(A) |-> A[i][j] + scalar]]

\* Matrix operator-(const T&)
Matrix_minus_scalar(A, scalar) ==
    [i \in 1..Matrix_rows(A) |-> [j \in 1..Matrix_cols(A) |-> A[i][j] - scalar]]

\* Matrix operator*(const T&)
Matrix_times_scalar(A, scalar) ==
    [i \in 1..Matrix_rows(A) |-> [j \in 1..Matrix_cols(A) |-> A[i][j] * scalar]]

\* Matrix operator+=(const T&): this[i][j] += scalar
Matrix_plus_assign_scalar(A, scalar) ==
    [i \in 1..Matrix_rows(A) |-> [j \in 1..Matrix_cols(A) |-> A[i][j] + scalar]]

\* Matrix operator-=(const T&)
Matrix_minus_assign_scalar(A, scalar) ==
    [i \in 1..Matrix_rows(A) |-> [j \in 1..Matrix_cols(A) |-> A[i][j] - scalar]]

\* Matrix operator*=(const T&)
Matrix_times_assign_scalar(A, scalar) ==
    [i \in 1..Matrix_rows(A) |-> [j \in 1..Matrix_cols(A) |-> A[i][j] * scalar]]

ScalarNames == {"plus", "minus", "times", "divide"}

\* x + scalar, x - scalar, x * scalar, x / scalar
ScalarBinary(kind, name, x, scalar) ==
    IF kind = "Vector"
    THEN CASE name = "plus" -> Checked(TRUE, Vector_plus_scalar(x, scalar))
           [] name = "minus" -> Checked(TRUE, Vector_minus_scalar(x, scalar))
           [] name = "times" -> Checked(TRUE, Vector_times_scalar(x, scalar))
           [] name = "divide" -> Vector_divide_scalar(x, scalar)
    ELSE CASE name = "plus" -> Checked(TRUE, Matrix_plus_scalar(x, scalar))
           [] name = "minus" -> Checked(TRUE, Matrix_minus_scalar(x, scalar))
           [] name = "times" -> Checked(TRUE, Matrix_times_scalar(x, scalar))
           [] name = "divide" -> Matrix_divide_scalar(x, scalar)

\* x += scalar, x -= scalar, x *= scalar, x /= scalar
ScalarCompound(kind, name, x, scalar) ==
    IF kind = "Vector"
    THEN CASE name = "plus" -> Checked(TRUE, Vector_plus_assign_scalar(x, scalar))
           [] name = "minus" -> Checked(TRUE, Vector_minus_assign_scalar(x, scalar))
           [] name = "times" -> Checked(TRUE, Vector_times_assign_scalar(x, scalar))
           [] name = "divide" -> Vector_divide_scalar(x, scalar)
    ELSE CASE name = "plus" -> Checked(TRUE, Matrix_plus_assign_scalar(x, scalar))
           [] name = "minus" -> Checked(TRUE, Matrix_minus_assign_scalar(x, scalar))
           [] name = "times" -> Checked(TRUE, Matrix_times_assign_scalar(x, scalar))
           [] name = "divide" -> Matrix_divide_scalar(x, scalar)

(***************************************************************************)
(* The scalar operators as steps: obj is the Vector or Matrix, other the   *)
(* scalar, orig the object as constructed.  A binary form is applied to    *)
(* the object as constructed; compound forms are applied one after the     *)
(* other, at most MaxSteps of them, and lhs lists them in order.           *)
(***************************************************************************)
MaxSteps == 2

ScalarInit ==
    /\ \/ /\ obj \in {Holder("Vector", v) : v \in Vectors}
          /\ other \in Elems
       \/ /\ obj \in {Holder("Matrix", A) : A \in UNION {Matrices(s[1], s[2]) : s \in Shapes}}
          /\ other \in MatrixElems
    /\ orig = obj
    /\ lhs = <<>>
    /\ rhs = <<>>
    /\ op = "construct"
    /\ result = NoResult
    /\ status = "ok"

ScalarReturns(kind) ==
    /\ op = "construct"
    /\ obj.kind = kind
    /\ \E name \in ScalarNames :
          /\ op' = name
          /\ \E outcome \in {ScalarBinary(kind, name, obj.value, other)} :
                /\ status' = outcome.status
                /\ result' = outcome.value
    /\ UNCHANGED <<obj, other, orig, lhs, rhs, timeVars>>

ScalarAssigns(kind) ==
    /\ op \in {"construct", "scalar_assign"}
    /\ status = "ok"
    /\ Len(lhs) < MaxSteps
    /\ obj.kind = kind
    /\ \E name \in ScalarNames :
          /\ op' = "scalar_assign"
          /\ lhs' = Append(lhs, name)
          /\ \E outcome \in {ScalarCompound(kind, name, obj.value, other)} :
                /\ status' = outcome.status
                /\ obj' = IF outcome.status = "ok"
                          THEN [obj EXCEPT !.value = outcome.value]
                          ELSE obj
    /\ UNCHANGED <<other, orig, result, rhs>>

VectorScalar == ScalarReturns("Vector")

VectorScalarAssign == ScalarAssigns("Vector")

MatrixScalar == ScalarReturns("Matrix")

MatrixScalarAssign == ScalarAssigns("Matrix")

ScalarNext ==
    \/ VectorScalar
    \/ VectorScalarAssign
    \/ MatrixScalar
    \/ MatrixScalarAssign

SpecScalar == ScalarInit /\ [][ScalarNext]_vars

\* one component combined with the scalar, in the arithmetic of the element type
Combined(name, c, scalar) ==
    CASE name = "plus" -> c + scalar
      [] name = "minus" -> c - scalar
      [] name = "times" -> c * scalar
      [] name = "divide" -> TruncDiv(c, scalar)

Componentwise(kind, name, x, scalar, y) ==
    IF kind = "Vector"
    THEN /\ Len(y) = Len(x)
         /\ \A i \in 1..Len(x) : y[i] = Combined(name, x[i], scalar)
    ELSE /\ SameShape(x, y)
         /\ \A i \in 1..Matrix_rows(x) : \A j \in 1..Matrix_cols(x) :
               y[i][j] = Combined(name, x[i][j], scalar)

\* the binary forms named by names applied one after the other, starting from x
RECURSIVE BinaryForms(_, _, _, _)
BinaryForms(kind, names, x, scalar) ==
    IF names = <<>>
    THEN x
    ELSE BinaryForms(kind, Tail(names),
                     ScalarBinary(kind, Head(names), x, scalar).value, scalar)

NonZeroDivisor(name) == name # "divide" \/ other # 0

(* C25: scalar arithmetic on a Vector or a Matrix is componentwise: for    *)
(* +, -, * and / by a non-zero scalar every component of x op s is the     *)
(* component of x combined with s, the binary form leaves x unchanged, and *)
(* after a sequence of compound forms the object equals the result of the  *)
(* same sequence of binary forms; (3,4,5) + 1 = (4,5,6) and                *)
(* (3,6,8) / 3 = (1,2,2).                                                  *)
C25_ScalarArithmeticIsComponentwise ==
    /\ (op \in ScalarNames /\ NonZeroDivisor(op)) =>
          /\ status = "ok"
          /\ obj = orig
          /\ Componentwise(obj.kind, op, obj.value, other, result)
    /\ (op = "scalar_assign" /\ \A k \in 1..Len(lhs) : NonZeroDivisor(lhs[k])) =>
          /\ status = "ok"
          /\ obj.value = BinaryForms(obj.kind, lhs, orig.value, other)
          /\ Len(lhs) = 1 => Componentwise(obj.kind, lhs[1], orig.value, other, obj.value)
    /\ Vector_plus_scalar(<<3, 4, 5>>, 1) = <<4, 5, 6>>
    /\ Vector_divide_scalar(<<3, 6, 8>>, 3) = [status |-> "ok", value |-> <<1, 2, 2>>]

C25_Witness ==
    /\ op = "scalar_assign"
    /\ lhs = <<"times", "divide">>
    /\ obj.kind = "Vector"
    /\ other = 2
    /\ orig.value = <<1, 0 - 2>>
    /\ obj.value = <<1, 0 - 2>>

(***************************************************************************)
(* The evaluation of detail::conversionFactor<fromUnit, toUnit>().  obj    *)
(* names the instantiation asked for.  The consteval call is one step, or  *)
(* it is followed through its recursion: lhs is the stack of the fromUnit  *)
(* arguments of the instantiations entered and not yet returned, result    *)
(* the uint64_t the last return gave.                                      *)
(***************************************************************************)
FactorInit ==
    /\ obj \in {[fromUnit |-> f, toUnit |-> t] : f, t \in TimeUnit}
    /\ obj.fromUnit >= obj.toUnit
    /\ other = NoObject
    /\ orig = obj
    /\ lhs = <<>>
    /\ rhs = <<>>
    /\ op = "construct"
    /\ result = NoResult
    /\ status = "ok"

\* conversionFactor<fromUnit, toUnit>() as a constant expression
FactorConsteval ==
    /\ op = "construct"
    /\ op' = "conversionFactor"
    /\ result' = conversionFactor(obj.fromUnit, obj.toUnit)
    /\ UNCHANGED <<obj, other, orig, status, vecVars>>

\* the instantiation asked for is entered
FactorCall ==
    /\ op = "construct"
    /\ op' = "call"
    /\ lhs' = <<obj.fromUnit>>
    /\ UNCHANGED <<obj, other, orig, result, status, rhs>>

\* toUnit # fromUnit: conversionFactor<fromUnit - 1, toUnit>() is entered
FactorRecurse ==
    /\ op = "call"
    /\ lhs[Len(lhs)] # obj.toUnit
    /\ lhs' = Append(lhs, lhs[Len(lhs)] - 1)
    /\ UNCHANGED <<obj, other, orig, op, result, status, rhs>>

\* toUnit == fromUnit: return 1
FactorBase ==
    /\ op = "call"
    /\ lhs[Len(lhs)] = obj.toUnit
    /\ op' = "return"
    /\ result' = FromNat(1, NumBytes)
    /\ lhs' = SubSeq(lhs, 1, Len(lhs) - 1)
    /\ UNCHANGED <<obj, other, orig, status, rhs>>

\* return 1000ULL * (the value the inner instantiation returned)
FactorReturn ==
    /\ op = "return"
    /\ lhs # <<>>
    /\ result' = WordMul(FromNat(Thousand, NumBytes), result)
    /\ lhs' = SubSeq(lhs, 1, Len(lhs) - 1)
    /\ UNCHANGED <<obj, other, orig, op, status, rhs>>

FactorNext ==
    \/ FactorConsteval
    \/ FactorCall
    \/ FactorRecurse
    \/ FactorBase
    \/ FactorReturn

SpecFactor == FactorInit /\ [][FactorNext]_vars

\* the remainder modulo d (d < 2^16) of the number the bytes of w from i up form
RECURSIVE HighRem(_, _, _)
HighRem(w, i, d) ==
    IF i > Len(w) THEN 0 ELSE ((HighRem(w, i + 1, d) * ByteBase) + w[i]) % d

\* the quotient of the number w by d, by long division from the top byte
QuotSmall(w, d) ==
    [i \in 1..Len(w) |-> ((HighRem(w, i + 1, d) * ByteBase) + w[i]) \div d]

\* the number w is 1000^k: it can be divided by 1000 exactly k times, leaving 1
RECURSIVE IsThousandTo(_, _)
IsThousandTo(w, k) ==
    IF k = 0
    THEN w = FromNat(1, Len(w))
    ELSE /\ HighRem(w, 1, Thousand) = 0
         /\ \E q \in {QuotSmall(w, Thousand)} : IsThousandTo(q, k - 1)

\* the fromUnit of the instantiation that returned last
ReturnedFrom == IF lhs = <<>> THEN obj.fromUnit ELSE lhs[Len(lhs)] - 1

(* C26: for every pair of TimeUnits with fromUnit >= toUnit,               *)
(* conversionFactor<fromUnit, toUnit>() is exactly 1000^(fromUnit - toUnit)*)
(* as a 64-bit number, nothing having wrapped; the factor from Second to   *)
(* Attosecond is 10^18, which does not fit 32 bits.                        *)
C26_FactorIsPowerOfThousand ==
    /\ op = "conversionFactor" =>
          /\ IsThousandTo(result, obj.fromUnit - obj.toUnit)
          /\ (obj.fromUnit = Second /\ obj.toUnit = Attosecond) =>
                ~IsZero(SubSeq(result, 5, NumBytes))
    /\ op = "return" =>
          /\ IsThousandTo(result, ReturnedFrom - obj.toUnit)
          /\ result = conversionFactor(ReturnedFrom, obj.toUnit)

C26_Witness ==
    /\ op = "conversionFactor"
    /\ obj.fromUnit = Second
    /\ obj.toUnit = Attosecond
    /\ result = <<0, 0, 100, 167, 179, 182, 224, 13>>

(***************************************************************************)
(* The cross-size operators on operands that compare equal.  lhs is a,     *)
(* other is a', a vector with a == a', and rhs is b; the sizes reach       *)
(* MaxN + 1, so that the three operands can have three different sizes.    *)
(* A step applies one operator to a and b and to a' and b.                 *)
(***************************************************************************)
WideSizes == 1..(MaxN + 1)

WideVectors == UNION {[1..n -> MatrixElems] : n \in WideSizes}

CongruenceInit ==
    /\ lhs \in WideVectors
    /\ other \in WideVectors
    /\ Vector_eq(lhs, other)
    /\ rhs \in WideVectors
    /\ op = "construct"
    /\ result = NoResult
    /\ status = "ok"
    /\ obj = NoObject
    /\ orig = NoObject

BothReturn(name, left, right) ==
    /\ op = "construct"
    /\ op' = name
    /\ result' = [left |-> left, right |-> right]
    /\ UNCHANGED <<lhs, rhs, other, obj, orig, status>>

BothPlus == BothReturn("plus", Vector_plus(lhs, rhs), Vector_plus(other, rhs))

BothMinus == BothReturn("minus", Vector_minus(lhs, rhs), Vector_minus(other, rhs))

BothTimes == BothReturn("times", Vector_times(lhs, rhs), Vector_times(other, rhs))

BothLess == BothReturn("lt", Vector_lt(lhs, rhs), Vector_lt(other, rhs))

BothEqual == BothReturn("eq", Vector_eq(lhs, rhs), Vector_eq(other, rhs))

CongruenceNext ==
    \/ BothPlus
    \/ BothMinus
    \/ BothTimes
    \/ BothLess
    \/ BothEqual

SpecCongruence == CongruenceInit /\ [][CongruenceNext]_vars

(* C27: cross-size equality is a congruence: whenever a == a', for every b *)
(* of any size a + b == a' + b, a - b == a' - b, a * b == a' * b,          *)
(* (a < b) <=> (a' < b) and (a == b) <=> (a' == b); so == is transitive    *)
(* across three different sizes.                                           *)
C27_EqualityIsCongruence ==
    /\ op \in {"plus", "minus", "times"} => Vector_eq(result.left, result.right)
    /\ op \in {"lt", "eq"} => (result.left <=> result.right)
    /\ (op = "eq" /\ Vector_eq(other, rhs)) => Vector_eq(lhs, rhs)

C27_Witness ==
    /\ op = "eq"
    /\ Len(lhs) = 2
    /\ Len(other) = 1
    /\ Len(rhs) = 3
    /\ lhs[1] # 0
    /\ result = [left |-> TRUE, right |-> TRUE]

(***************************************************************************)
(* Chains of matMult.  obj is A (N x M), other is B (M x P) and rhs is C   *)
(* (P x Q); the three matrices have at most ChainCells elements together.  *)
(* A.matMult(B).matMult(C) is evaluated first, A.matMult(B.matMult(C))     *)
(* after it; result keeps the inner and the outer products.                *)
(***************************************************************************)
ChainCells == MaxCells + 2

ChainInit ==
    /\ \E n, m, p, q \in Dims :
          /\ (n * m) + (m * p) + (p * q) <= ChainCells
          /\ obj \in Matrices(n, m)
          /\ other \in Matrices(m, p)
          /\ rhs \in Matrices(p, q)
    /\ lhs = <<>>
    /\ orig = NoObject
    /\ op = "construct"
    /\ result = NoResult
    /\ status = "ok"

\* A.matMult(B).matMult(C)
ChainLeft ==
    /\ op = "construct"
    /\ op' = "chain_left"
    /\ \E AB \in {Matrix_matMult(obj, other)} :
          result' = [ab |-> AB, left |-> Matrix_matMult(AB, rhs)]
    /\ UNCHANGED <<obj, other, orig, status, lhs, rhs>>

\* A.matMult(B.matMult(C))
ChainRight ==
    /\ op = "chain_left"
    /\ op' = "chain_right"
    /\ \E BC \in {Matrix_matMult(other, rhs)} :
          result' = [ab |-> result.ab, left |-> result.left,
                     bc |-> BC, right |-> Matrix_matMult(obj, BC)]
    /\ UNCHANGED <<obj, other, orig, status, lhs, rhs>>

ChainNext ==
    \/ ChainLeft
    \/ ChainRight

SpecChain == ChainInit /\ [][ChainNext]_vars

IsZeroMatrix(X) ==
    \A i \in 1..Matrix_rows(X) : \A j \in 1..Matrix_cols(X) : X[i][j] = 0

(* C28: matMult is associative: for every N x M matrix A, M x P matrix B   *)
(* and P x Q matrix C, A.matMult(B).matMult(C) == A.matMult(B.matMult(C)); *)
(* and a product with an all-zero factor is the all-zero matrix.           *)
C28_MatMultIsAssociative ==
    /\ op = "chain_right" =>
          /\ Matrix_eq(result.left, result.right)
          /\ result.left = result.right
          /\ IsZeroMatrix(other) \/ IsZeroMatrix(rhs) => IsZeroMatrix(result.bc)
    /\ op \in {"chain_left", "chain_right"} =>
          /\ IsZeroMatrix(obj) \/ IsZeroMatrix(other) => IsZeroMatrix(result.ab)
          /\ Matrix_rows(result.ab) = Matrix_rows(obj)
          /\ Matrix_cols(result.ab) = Matrix_cols(other)
          /\ IsZeroMatrix(result.ab) \/ IsZeroMatrix(rhs) => IsZeroMatrix(result.left)

C28_Witness ==
    /\ op = "chain_right"
    /\ Matrix_rows(obj) = 2
    /\ Matrix_cols(obj) = 1
    /\ Matrix_cols(other) = 2
    /\ Matrix_cols(rhs) = 1
    /\ result.ab = <<<<1, 0 - 1>>, <<0 - 1, 1>>>>
    /\ result.right = <<<<1>>, <<0 - 1>>>>

(* C29: the cross product of vectors of size 3 is anti-commutative and     *)
(* orthogonal to its operands: a.cross(b) == -(b.cross(a)), a.cross(a) is  *)
(* the zero vector, and a.dot(a.cross(b)) = b.dot(a.cross(b)) = 0.         *)
C29_CrossIsAntiCommutative ==
    /\ op = "negated_cross_reversed" =>
          /\ Vector_eq(Vector_cross(lhs, rhs), result)
          /\ \A i \in 1..CrossSize : result[i] + Vector_cross(rhs, lhs)[i] = 0
    /\ op = "cross_self" => result = Vector_default(CrossSize)
    /\ op = "dot_cross" => other = <<0, 0>>

C29_Witness ==
    /\ op = "dot_cross"
    /\ lhs = <<1, 2, 0 - 1>>
    /\ rhs = <<0 - 2, 1, 2>>
    /\ result = <<5, 0, 5>>
    /\ other = <<0, 0>>

\* -v, for a v other than the least value of T
T_negate(v) == TValue(~v.neg, v.mag)

(* C30: unit conversion of a signed integer is sign-symmetric and keeps    *)
(* the sign: convert<from, to>(-v) = -convert<from, to>(v), and a negative *)
(* v converted to a unit larger by k steps gives r with                    *)
(* v / 1000^k = r <= 0.                                                    *)
C30_ConvertIsSignSymmetric ==
    (op \in {"as", "interval"} /\ HasIdeal(other.unit, obj.unit, other.value)) =>
        /\ convert(other.unit, obj.unit, T_negate(other.value)) = T_negate(obj.value)
        /\ (other.value.neg /\ obj.unit > other.unit) =>
              /\ ~T_less(TZero, obj.value)
              /\ obj.value = TValue(TRUE, WordDiv(other.value.mag,
                                                  Pow1000(obj.unit - other.unit)))

====
